---- MODULE Spec2Model ----
(***************************************************************************)
(* Model of drorrosen/mineral_analysis: the Streamlit dashboard            *)
(* (streamlit_app.py), the spreadsheet parsers (analysis_table_*.py) and   *)
(* the plotting scripts (analysis_table_*_visuals.py).                     *)
(*                                                                         *)
(* Python strings are modelled as sequences of one-character strings, so   *)
(* that strip, lower, replace and slicing are computed, not assumed.       *)
(*                                                                         *)
(* The module holds several specifications over the same variables; each   *)
(* one moves the variables of one part of the program and leaves the       *)
(* others at rest:                                                         *)
(*   SpecScripts  the parser and plotting scripts run in a directory       *)
(*   SpecApp      a browser session of the dashboard                       *)
(*   SpecYearRow  the year-row search of the parsers on small sheets       *)
(*   SpecTables   the Table 3.2, 4.1 and 4.3 parsers on small sheets        *)
(*   SpecCalls    single functions of the parsers on small arguments        *)
(***************************************************************************)
EXTENDS Integers, Sequences, FiniteSets, TLC

VARIABLES
    fs,         \* the working directory: file path -> set of sheet names
    dirs,       \* the sub-directories of the working directory
    lastRun,    \* how the last script run went
    completed,  \* the scripts that have run to their end without an error
    runs,       \* number of script runs so far
    session,    \* st.session_state of the dashboard: key -> value
    rendered,   \* widgets the last run of streamlit_app.py put on the page
    gate,       \* what check_password() returned in the last run
    event,      \* the browser event that caused the last run
    page,       \* value of the sidebar radio "Select a Page"
    selected,   \* value of the selectbox of the page
    opened,     \* chart files the last run tried to open
    notFound,   \* chart files the last run reported as not found
    input,      \* a sheet of the source workbook, read into a DataFrame
    call,       \* the parser function applied to it, "none" before
    result      \* what that function returned

scriptVars == <<fs, dirs, lastRun, completed, runs>>

appVars == <<session, rendered, gate, event, page, selected, opened, notFound>>

parseVars == <<input, call, result>>

vars == <<fs, dirs, lastRun, completed, runs,
          session, rendered, gate, event, page, selected, opened, notFound,
          input, call, result>>

-----------------------------------------------------------------------------
(* Python string operations, on sequences of characters *)

UPPER == <<"A","B","C","D","E","F","G","H","I","J","K","L","M","N","O","P","Q","R","S","T","U","V","W","X","Y","Z">>
LOWER == <<"a","b","c","d","e","f","g","h","i","j","k","l","m","n","o","p","q","r","s","t","u","v","w","x","y","z">>
DIGITS == <<"0","1","2","3","4","5","6","7","8","9">>

Range(s) == {s[i] : i \in 1..Len(s)}

\* str.strip() removes leading and trailing whitespace
Whitespace == {" ", "\t", "\n"}

RECURSIVE LStrip(_)
LStrip(s) ==
    IF s = <<>> THEN <<>>
    ELSE IF Head(s) \in Whitespace THEN LStrip(Tail(s)) ELSE s

RECURSIVE RStrip(_)
RStrip(s) ==
    IF s = <<>> THEN <<>>
    ELSE IF s[Len(s)] \in Whitespace THEN RStrip(SubSeq(s, 1, Len(s) - 1)) ELSE s

Strip(s) == RStrip(LStrip(s))

\* str.lower()
Lower(s) ==
    [i \in 1..Len(s) |->
        IF s[i] \in Range(UPPER) THEN LOWER[CHOOSE k \in 1..Len(UPPER) : UPPER[k] = s[i]]
        ELSE s[i]]

\* str.replace(c, t) for a one-character c
RECURSIVE ReplaceChar(_, _, _)
ReplaceChar(s, c, t) ==
    IF s = <<>> THEN <<>>
    ELSE (IF Head(s) = c THEN t ELSE <<Head(s)>>) \o ReplaceChar(Tail(s), c, t)

\* re.sub('[...]', '', s): s without the characters of cs
RemoveChars(s, cs) == SelectSeq(s, LAMBDA c : c \notin cs)

\* s[:n]
Take(s, n) == SubSeq(s, 1, IF Len(s) < n THEN Len(s) ELSE n)

\* "".join(c for c in s if c.isalnum() or c == '_')
KeepAlnumUnderscore(s) ==
    SelectSeq(s, LAMBDA c : c \in Range(UPPER) \cup Range(LOWER) \cup Range(DIGITS) \/ c = "_")

\* s.lower().replace(" ", "_")
LowerUnderscore(s) == ReplaceChar(Lower(s), " ", <<"_">>)

\* s.lower().replace(" ", "_").replace("(", "").replace(")", "")
LowerUnderscoreNoParens(s) ==
    ReplaceChar(ReplaceChar(LowerUnderscore(s), "(", <<>>), ")", <<>>)

\* t occurs in s (Python's `t in s`)
Contains(s, t) ==
    \E i \in 1..(Len(s) - Len(t) + 1) : SubSeq(s, i, i + Len(t) - 1) = t

StartsWith(s, t) == Len(t) <= Len(s) /\ SubSeq(s, 1, Len(t)) = t

\* Excel's limit on the length of a sheet name
SheetNameMax == 31

CleanSheetNameNoLimit(name) ==
    Strip(RemoveChars(RemoveChars(name, {"\\", "/", "*", "?", ":", "[", "]"}), {"(", ")"}))

\* clean_sheet_name of every parser
clean_sheet_name(name) ==
    Take(Strip(RemoveChars(RemoveChars(name, {"\\", "/", "*", "?", ":", "[", "]"}), {"(", ")"})),
         SheetNameMax)

\* The three scenarios, as the parsers and the plotting scripts name them
ScenarioLong ==
    << <<"S","t","a","t","e","d"," ","P","o","l","i","c","i","e","s"," ","s","c","e","n","a","r","i","o">>,
       <<"A","n","n","o","u","n","c","e","d"," ","P","l","e","d","g","e","s"," ","s","c","e","n","a","r","i","o">>,
       <<"N","e","t"," ","Z","e","r","o"," ","E","m","i","s","s","i","o","n","s"," ","b","y"," ","2","0","5","0"," ","s","c","e","n","a","r","i","o">> >>

ScenarioShort == << <<"S","t","a","t","e","d"," ","P","o","l","i","c","i","e","s">>, <<"A","n","n","o","u","n","c","e","d"," ","P","l","e","d","g","e","s">>, <<"N","e","t"," ","Z","e","r","o">> >>

-----------------------------------------------------------------------------
(* The working directory: workbooks and chart files *)

\* os.path: './name' and 'name' are the same file
NormPath(p) == IF StartsWith(p, <<".","/">>) THEN SubSeq(p, 3, Len(p)) ELSE p

\* the source workbook every parser reads, and its sheets
SourceWorkbook == <<"C","M","_","D","a","t","a","_","E","x","p","l","o","r","e","r"," ","M","a","y"," ","2","0","2","4"," ","(","2",")",".","x","l","s","x">>

SourceSheets ==
    { <<"1"," ","T","o","t","a","l"," ","d","e","m","a","n","d"," ","f","o","r"," ","k","e","y"," ","m","i","n","e","r","a","l","s">>,
      <<"2"," ","T","o","t","a","l"," ","s","u","p","p","l","y"," ","f","o","r"," ","k","e","y"," ","m","i","n","e","r","a","l","s">>,
      <<"3",".","1"," ","C","l","e","a","n","t","e","c","h"," ","d","e","m","a","n","d"," ","b","y"," ","t","e","c","h">>,
      <<"3",".","2"," ","C","l","e","a","n","t","e","c","h"," ","d","e","m","a","n","d"," ","b","y"," ","m","i","n","e","r","a","l">>,
      <<"4",".","1"," ","S","o","l","a","r"," ","P","V">>,
      <<"4",".","2"," ","W","i","n","d">>,
      <<"4",".","3"," ","E","V">> }

\* the entities of the source workbook, as the scripts and the dashboard list them
Table1Minerals ==
    { <<"C","o","p","p","e","r">>, <<"L","i","t","h","i","u","m">>, <<"N","i","c","k","e","l">>, <<"C","o","b","a","l","t">>,
      <<"G","r","a","p","h","i","t","e"," ","a","l","l"," ","g","r","a","d","e","s"," ","n","a","t","u","r","a","l"," ","a","n","d">>, <<"M","a","g","n","e","t"," ","r","a","r","e"," ","e","a","r","t","h"," ","e","l","e","m","e","n","t","s">> }

Table2Metals ==
    { <<"C","o","p","p","e","r">>, <<"C","o","b","a","l","t">>, <<"L","i","t","h","i","u","m">>, <<"N","i","c","k","e","l">>,
      <<"M","a","g","n","e","t"," ","r","a","r","e"," ","e","a","r","t","h"," ","e","l","e","m","e","n","t","s">>, <<"G","r","a","p","h","i","t","e">> }

Table31Metals ==
    { <<"C","h","r","o","m","i","u","m">>, <<"C","o","p","p","e","r">>, <<"C","o","b","a","l","t">>, <<"B","a","t","t","e","r","y","-","g","r","a","d","e"," ","g","r","a","p","h","i","t","e">>, <<"L","i","t","h","i","u","m">>,
      <<"M","a","n","g","a","n","e","s","e">>, <<"M","o","l","y","b","d","e","n","u","m">>, <<"N","i","c","k","e","l">>, <<"P","G","M","s">>, <<"S","i","l","i","c","o","n">>, <<"S","i","l","v","e","r">>,
      <<"Z","i","n","c">>, <<"N","e","o","d","y","m","i","u","m">> }

SolarTechs ==
    << <<"B","a","s","e"," ","c","a","s","e">>,
       <<"C","o","m","e","b","a","c","k"," ","o","f"," ","h","i","g","h"," ","C","d","-","T","e"," ","t","e","c","h","n","o","l","o","g","y">>,
       <<"W","i","d","e","r"," ","a","d","o","p","t","i","o","n"," ","o","f"," ","G","a","-","A","s"," ","t","e","c","h","n","o","l","o","g","y">>,
       <<"W","i","d","e","r"," ","a","d","o","p","t","i","o","n"," ","o","f"," ","p","e","r","o","v","s","k","i","t","e"," ","s","o","l","a","r"," ","c","e","l","l","s">> >>

WindSections == { <<"B","a","s","e"," ","c","a","s","e">>, <<"C","o","n","s","t","r","a","i","n","e","d"," ","r","a","r","e"," ","e","a","r","t","h"," ","e","l","e","m","e","n","t","s"," ","s","u","p","p","l","y">> }

WindMaterials ==
    { <<"B","o","r","o","n">>, <<"C","h","r","o","m","i","u","m">>, <<"C","o","p","p","e","r">>, <<"M","a","n","g","a","n","e","s","e">>, <<"M","o","l","y","b","d","e","n","u","m">>, <<"N","i","c","k","e","l">>,
      <<"Z","i","n","c">>, <<"N","e","o","d","y","m","i","u","m">>, <<"D","y","s","p","r","o","s","i","u","m">>, <<"P","r","a","s","e","o","d","y","m","i","u","m">>, <<"T","e","r","b","i","u","m">>,
      <<"T","o","t","a","l"," ","w","i","n","d">> }

EVSections ==
    << <<"B","a","s","e"," ","c","a","s","e">>,
       <<"H","i","g","h"," ","m","a","t","e","r","i","a","l"," ","p","r","i","c","e","s">>,
       <<"W","i","d","e","r"," ","u","s","e"," ","o","f"," ","s","i","l","i","c","o","n","-","r","i","c","h"," ","a","n","o","d","e","s">>,
       <<"F","a","s","t","e","r"," ","u","p","t","a","k","e"," ","o","f"," ","s","o","l","i","d"," ","s","t","a","t","e"," ","b","a","t","t","e","r","i","e","s">>,
       <<"L","o","w","e","r"," ","b","a","t","t","e","r","y"," ","s","i","z","e","s">>,
       <<"L","i","m","i","t","e","d"," ","b","a","t","t","e","r","y"," ","s","i","z","e"," ","r","e","d","u","c","t","i","o","n">> >>

BatteryMaterials ==
    { <<"C","o","p","p","e","r">>, <<"C","o","b","a","l","t">>, <<"B","a","t","t","e","r","y","-","g","r","a","d","e"," ","g","r","a","p","h","i","t","e">>, <<"L","i","t","h","i","u","m">>,
      <<"M","a","n","g","a","n","e","s","e">>, <<"N","i","c","k","e","l">>, <<"S","i","l","i","c","o","n">>, <<"V","a","n","a","d","i","u","m">> }

NetworkTechnologies ==
    { <<"B","a","s","e"," ","c","a","s","e">>, <<"W","i","d","e","r"," ","d","i","r","e","c","t"," ","c","u","r","r","e","n","t"," ","(","D","C",")"," ","t","e","c","h","n","o","l","o","g","y"," ","d","e","v","e","l","o","p","m","e","n","t">> }

HydrogenMaterials ==
    { <<"C","o","p","p","e","r">>, <<"C","o","b","a","l","t">>, <<"I","r","i","d","i","u","m">>, <<"N","i","c","k","e","l">>, <<"P","G","M","s"," ","(","o","t","h","e","r"," ","t","h","a","n"," ","i","r","i","d","i","u","m",")">>,
      <<"Z","i","r","c","o","n","i","u","m">>, <<"Y","t","t","r","i","u","m">>, <<"T","o","t","a","l"," ","h","y","d","r","o","g","e","n"," ","t","e","c","h","n","o","l","o","g","i","e","s">> }

WriteOnly(f, files) == files

\* f with the files of `files` created or overwritten
WriteAll(f, files) ==
    [p \in DOMAIN f \cup DOMAIN files |-> IF p \in DOMAIN files THEN files[p] ELSE f[p]]

\* chart files hold no sheets
Charts(paths) == [p \in paths |-> {}]

\* How a part of a script can end: "ok"; "FileNotFoundError" (pandas cannot open
\* the workbook); "sheet not found" (ValueError of read_excel for a sheet name
\* the workbook lacks, or KeyError on the dictionary of the sheets read);
\* "KeyError: 'Technology'" (a column the sheet lacks).

\* what one part of a script did: the directory after it, how it ended, whether
\* the script itself caught the error (printed a message and re-raised), the
\* files it wrote, and the input file that was missing
Fail(f, d, outcome, caught, missing) ==
    [f |-> f, d |-> d, outcome |-> outcome, caught |-> caught, wrote |-> {},
     missing |-> missing]

Done(f, d, files) ==
    [f |-> WriteAll(f, files), d |-> d, outcome |-> "ok", caught |-> FALSE,
     wrote |-> DOMAIN files, missing |-> <<>>]

ParserWritesAnyway(f, d, path, sheet, files) == Done(f, d, files)

\* a parser: pd.read_excel(path, sheet_name=sheet) outside any try, then
\* save_to_excel
Parser(f, d, path, sheet, files) ==
    IF NormPath(path) \notin DOMAIN f
    THEN Fail(f, d, "FileNotFoundError", FALSE, NormPath(path))
    ELSE IF sheet \notin f[NormPath(path)]
    THEN Fail(f, d, "sheet not found", FALSE, <<>>)
    ELSE Done(f, d, files)

-----------------------------------------------------------------------------
(* The parsers: the workbook each writes *)

DemandWorkbook == <<"o","r","g","a","n","i","z","e","d","_","m","i","n","e","r","a","l","_","d","e","m","a","n","d",".","x","l","s","x">>

\* analysis_table_1.py, save_to_excel
DemandSheets ==
    { <<"O","v","e","r","v","i","e","w">> }
    \cup { clean_sheet_name(<<"S","u","m","m","a","r","y","_">> \o ScenarioLong[i]) : i \in 1..3 }
    \cup { clean_sheet_name(m) : m \in Table1Minerals }

MiningWorkbook == <<"m","i","n","e","r","a","l","_","s","u","p","p","l","y","_","m","i","n","i","n","g",".","x","l","s","x">>
RefiningWorkbook == <<"m","i","n","e","r","a","l","_","s","u","p","p","l","y","_","r","e","f","i","n","i","n","g",".","x","l","s","x">>

\* analysis_table_2.py, save_to_excel
SupplySheets == { clean_sheet_name(m) : m \in Table2Metals }

TechDemandWorkbook == <<"d","e","m","a","n","d","_","s","c","e","n","a","r","i","o","s",".","x","l","s","x">>

\* analysis_table_3_1.py, save_to_excel
TechDemandSheets ==
    { clean_sheet_name(m \o <<"_">> \o ScenarioShort[i]) : m \in Table31Metals, i \in 1..3 }

MineralDemandWorkbook == <<"3",".","2"," ","C","l","e","a","n","t","e","c","h"," ","d","e","m","a","n","d"," ","b","y"," ","m","i","n","e","r","a","l","s",".","x","l","s","x">>

\* analysis_table_3_2.py, save_to_excel
MineralDemandSheets == { clean_sheet_name(ScenarioShort[i]) : i \in 1..3 }

SolarWorkbook == <<"4","_","1","_","s","o","l","a","r","_","p","v","_","s","c","e","n","a","r","i","o","s",".","x","l","s","x">>

\* analysis_table_4_1.py, save_to_excel
SolarSheets ==
    { <<"O","v","e","r","v","i","e","w">> }
    \cup { clean_sheet_name(SolarTechs[t] \o <<"_">> \o ScenarioLong[i]) : t \in 1..4, i \in 1..3 }

WindWorkbook == <<"4","_","2","_","w","i","n","d","_","s","c","e","n","a","r","i","o","s",".","x","l","s","x">>

\* the wind parser, save_to_excel
WindSheets ==
    { <<"O","v","e","r","v","i","e","w">>, <<"W","i","n","d","_","D","a","t","a">> }
    \cup { clean_sheet_name(s) : s \in WindSections }
    \cup { clean_sheet_name(ScenarioLong[i]) : i \in 1..3 }

EVWorkbook == <<"4","_","3","_","e","v","_","s","c","e","n","a","r","i","o","s",".","x","l","s","x">>

\* analysis_table_4_3.py, save_to_excel
EVSectionSheets ==
    { <<"O","v","e","r","v","i","e","w">> } \cup { clean_sheet_name(EVSections[t]) : t \in 1..6 }

\* analysis_table_4.3.py, save_to_excel
EVScenarioSheets ==
    { <<"O","v","e","r","v","i","e","w">> }
    \cup { clean_sheet_name(EVSections[t] \o <<"_">> \o ScenarioLong[i]) : t \in 1..6, i \in 1..3 }

-----------------------------------------------------------------------------
(* The plotting scripts: the workbook each reads and the charts each writes *)

DemandPlotInput == <<"1","_","o","r","g","a","n","i","z","e","d","_","m","i","n","e","r","a","l","_","d","e","m","a","n","d",".","x","l","s","x">>

\* create_cross_mineral_comparisons, scenario_map
ScenarioFileName == << <<"s","t","a","t","e","d","_","p","o","l","i","c","i","e","s">>, <<"a","n","n","o","u","n","c","e","d","_","p","l","e","d","g","e","s">>, <<"n","e","t","_","z","e","r","o">> >>

\* analysis_table_1_visuals.py: the files written for the mineral sheets ms
DemandCharts(ms) ==
    { <<"f","i","g","u","r","e","s","/">> \o LowerUnderscore(m) \o <<"_","t","r","e","n","d","s",".","h","t","m","l">> : m \in ms }
    \cup { <<"f","i","g","u","r","e","s","/">> \o KeepAlnumUnderscore(Lower(m)) \o <<"_">>
             \o KeepAlnumUnderscore(Lower(ScenarioLong[i])) \o <<"_","p","r","o","p","o","r","t","i","o","n","s",".","p","n","g">>
           : m \in ms, i \in 1..3 }
    \cup { <<"f","i","g","u","r","e","s","/">> \o LowerUnderscore(m) \o <<"_","s","t","a","t","i","s","t","i","c","s",".","h","t","m","l">> : m \in ms }
    \cup { <<"f","i","g","u","r","e","s","/","t","o","t","a","l","_","d","e","m","a","n","d","_","c","o","m","p","a","r","i","s","o","n","_">> \o ScenarioFileName[i] \o <<".","h","t","m","l">> : i \in 1..3 }
    \cup { <<"f","i","g","u","r","e","s","/","g","r","o","w","t","h","_","c","o","m","p","a","r","i","s","o","n","_">> \o ScenarioFileName[i] \o <<".","h","t","m","l">> : i \in 1..3 }

\* analysis_table_1_visuals.py, main
DemandPlot(f, d) ==
    LET d1 == d \cup { <<"f","i","g","u","r","e","s">> }
        ms == { s \in f[DemandPlotInput] :
                  ~(StartsWith(s, <<"O","v","e","r","v","i","e","w">>) \/ StartsWith(s, <<"S","u","m","m","a","r","y">>)) }
    IN  IF DemandPlotInput \notin DOMAIN f
        THEN Fail(f, d1, "FileNotFoundError", TRUE, DemandPlotInput)
        ELSE IF ms = {} THEN Done(f, d1, <<>>)
        ELSE Done(f, d1, Charts(DemandCharts(ms)))

MiningPlotInput == <<"2","_","m","i","n","e","r","a","l","_","s","u","p","p","l","y","_","m","i","n","i","n","g",".","x","l","s","x">>
RefiningPlotInput == <<"2","_","m","i","n","e","r","a","l","_","s","u","p","p","l","y","_","r","e","f","i","n","i","n","g",".","x","l","s","x">>

Activities == { <<"m","i","n","i","n","g">>, <<"r","e","f","i","n","i","n","g">> }

\* analysis_table_2_visuals.py: the files written for the mineral sheets ms
SupplyCharts(ms) ==
    { <<"f","i","g","u","r","e","_","2","/">> \o LowerUnderscore(m) \o <<"_">> \o a \o <<"_","t","r","e","n","d",".","h","t","m","l">> : m \in ms, a \in Activities }
    \cup { <<"f","i","g","u","r","e","_","2","/">> \o LowerUnderscore(m) \o <<"_","m","i","n","i","n","g","_","r","e","f","i","n","i","n","g","_","r","a","t","i","o","_","2","0","2","3",".","h","t","m","l">> : m \in ms }
    \cup { <<"f","i","g","u","r","e","_","2","/","c","o","u","n","t","r","y","_","d","o","m","i","n","a","n","c","e","_">> \o a \o <<"_">> \o y \o <<".","h","t","m","l">>
           : a \in Activities, y \in { <<"2","0","2","3">>, <<"2","0","4","0">> } }
    \cup { <<"f","i","g","u","r","e","_","2","/","t","o","p","3","_","s","h","a","r","e","s","_">> \o a \o <<"_">> \o y \o <<".","h","t","m","l">>
           : a \in Activities, y \in { <<"2","0","2","3">>, <<"2","0","4","0">> } }
    \cup { <<"f","i","g","u","r","e","_","2","/">> \o LowerUnderscore(m) \o <<"_">> \o a \o <<"_","s","t","a","t","i","s","t","i","c","s",".","h","t","m","l">> : m \in ms, a \in Activities }
    \cup { <<"f","i","g","u","r","e","_","2","/","s","u","m","m","a","r","y","_","s","t","a","t","i","s","t","i","c","s","_">> \o a \o <<".","h","t","m","l">> : a \in Activities }
    \cup { <<"f","i","g","u","r","e","_","2","/">> \o LowerUnderscore(m) \o <<"_">> \o a \o <<"_","a","g","g","r","e","g","a","t","e","_","t","r","e","n","d","s",".","h","t","m","l">> : m \in ms, a \in Activities }
    \cup { <<"f","i","g","u","r","e","_","2","/">> \o LowerUnderscore(m) \o <<"_">> \o a \o <<"_","p","r","o","p","o","r","t","i","o","n","s",".","h","t","m","l">> : m \in ms, a \in Activities }
    \cup { <<"f","i","g","u","r","e","_","2","/">> \o LowerUnderscore(m) \o <<"_">> \o a \o <<"_","p","r","o","p","o","r","t","i","o","n","s",".","p","n","g">> : m \in ms, a \in Activities }
    \cup { <<"f","i","g","u","r","e","_","2","/","g","r","o","w","t","h","_","a","n","a","l","y","s","i","s",".","h","t","m","l">> }

\* analysis_table_2_visuals.py, main
SupplyPlot(f, d) ==
    LET d1 == d \cup { <<"f","i","g","u","r","e","_","2">> }
    IN  IF MiningPlotInput \notin DOMAIN f
        THEN Fail(f, d1, "FileNotFoundError", TRUE, MiningPlotInput)
        ELSE IF RefiningPlotInput \notin DOMAIN f
        THEN Fail(f, d1, "FileNotFoundError", TRUE, RefiningPlotInput)
        ELSE IF ~(f[MiningPlotInput] \subseteq f[RefiningPlotInput])
        THEN Fail(f, d1, "sheet not found", FALSE, <<>>)
        ELSE Done(f, d1, Charts(SupplyCharts(f[MiningPlotInput])))

MineralDemandPlotInput == <<"3",".","2"," ","C","l","e","a","n","t","e","c","h"," ","d","e","m","a","n","d"," ","b","y"," ","m","i","n","e","r","a","l",".","x","l","s","x">>

\* analysis_table_3_2_visuals.py, first script: the files written
MineralDemandCharts ==
    { <<"f","i","g","u","r","e","_","3","_","2","/","t","o","p","_","g","r","o","w","i","n","g","_","m","e","t","a","l","s","_">> \o LowerUnderscore(ScenarioShort[i]) \o <<".","h","t","m","l">> : i \in 1..3 }
    \cup { <<"f","i","g","u","r","e","_","3","_","2","/","t","o","p","_","d","e","c","l","i","n","i","n","g","_","m","e","t","a","l","s","_">> \o LowerUnderscore(ScenarioShort[i]) \o <<".","h","t","m","l">> : i \in 1..3 }
    \cup { <<"f","i","g","u","r","e","_","3","_","2","/","s","t","a","t","i","s","t","i","c","s","_">> \o LowerUnderscore(ScenarioShort[i]) \o <<".","h","t","m","l">> : i \in 1..3 }

\* analysis_table_3_2_visuals.py, first main
MineralDemandPlot(f, d) ==
    LET d1 == d \cup { <<"f","i","g","u","r","e","_","3","_","2">> }
    IN  IF MineralDemandPlotInput \notin DOMAIN f
        THEN Fail(f, d1, "FileNotFoundError", FALSE, MineralDemandPlotInput)
        ELSE IF ~({ ScenarioShort[i] : i \in 1..3 } \subseteq f[MineralDemandPlotInput])
        THEN Fail(f, d1, "sheet not found", FALSE, <<>>)
        ELSE Done(f, d1, Charts(MineralDemandCharts))

SolarPlotInput == <<"4",".","1"," ","s","o","l","a","r","_","p","v","_","s","c","e","n","a","r","i","o","s",".","x","l","s","x">>

\* analysis_table_4_1_visuals.py, main: inspect_excel_file, then
\* verify_2023_values, which reads a 'Technology' column no parser writes
SolarPlot(f, d) ==
    IF SolarPlotInput \notin DOMAIN f
    THEN Fail(f, d, "FileNotFoundError", TRUE, SolarPlotInput)
    ELSE Fail(f, d, "KeyError: 'Technology'", FALSE, <<>>)

WindPlotInput == <<"4","_","2","_","w","i","n","d","_","s","c","e","n","a","r","i","o","s",".","x","l","s","x">>

WindPlotSheets == { <<"B","a","s","e"," ","c","a","s","e">>, <<"C","o","n","s","t","r","a","i","n","e","d"," ","r","a","r","e"," ","e","a","r","t","h"," ","e","l","e","m","e","n","t","s">> }

\* analysis_Table_4_2_visuals.py: the files written
WindCharts ==
    { <<"f","i","g","u","r","e","_","4","_","2","/">> \o LowerUnderscore(m) \o <<"_","b","a","s","e","_","c","a","s","e","_","t","r","e","n","d","s",".","h","t","m","l">> : m \in WindMaterials }
    \cup { <<"f","i","g","u","r","e","_","4","_","2","/">> \o LowerUnderscore(m) \o <<"_","c","o","n","s","t","r","a","i","n","e","d","_","c","a","s","e","_","t","r","e","n","d","s",".","h","t","m","l">> : m \in WindMaterials }
    \cup { <<"f","i","g","u","r","e","_","4","_","2","/","s","u","p","p","l","y","_","c","o","n","s","t","r","a","i","n","t","_","i","m","p","a","c","t",".","h","t","m","l">>, <<"f","i","g","u","r","e","_","4","_","2","/","g","r","o","w","t","h","_","r","a","t","e","s",".","h","t","m","l">> }
    \cup { <<"f","i","g","u","r","e","_","4","_","2","/","s","t","a","t","i","s","t","i","c","s","_">> \o LowerUnderscore(c) \o <<".","h","t","m","l">>
           : c \in { <<"B","a","s","e"," ","c","a","s","e">>, <<"C","o","n","s","t","r","a","i","n","e","d">> } }

\* analysis_Table_4_2_visuals.py, main
WindPlot(f, d) ==
    LET d1 == d \cup { <<"f","i","g","u","r","e","_","4","_","2">> }
    IN  IF WindPlotInput \notin DOMAIN f
        THEN Fail(f, d1, "FileNotFoundError", FALSE, WindPlotInput)
        ELSE IF ~(WindPlotSheets \subseteq f[WindPlotInput])
        THEN Fail(f, d1, "sheet not found", FALSE, <<>>)
        ELSE Done(f, d1, Charts(WindCharts))

\* analysis_table_4_4_visuals.py: the files written
BatteryCharts ==
    { <<"f","i","g","u","r","e","_","4","_","4","/">> \o LowerUnderscore(m) \o <<"_","t","r","e","n","d","s",".","h","t","m","l">> : m \in BatteryMaterials }
    \cup { <<"f","i","g","u","r","e","_","4","_","4","/","s","c","e","n","a","r","i","o","_","c","o","m","p","a","r","i","s","o","n","_","2","0","5","0",".","h","t","m","l">>, <<"f","i","g","u","r","e","_","4","_","4","/","g","r","o","w","t","h","_","r","a","t","e","s",".","h","t","m","l">>,
           <<"f","i","g","u","r","e","_","4","_","4","/","t","o","t","a","l","_","d","e","m","a","n","d","_","t","r","e","n","d","s",".","h","t","m","l">> }

\* analysis_table_4_5_visuals.py: the files written
NetworkCharts ==
    { <<"f","i","g","u","r","e","_","4","_","5","/">> \o LowerUnderscoreNoParens(t) \o <<"_","t","r","e","n","d","s",".","h","t","m","l">> : t \in NetworkTechnologies }
    \cup { <<"f","i","g","u","r","e","_","4","_","5","/","s","c","e","n","a","r","i","o","_","c","o","m","p","a","r","i","s","o","n","_","2","0","5","0",".","h","t","m","l">>, <<"f","i","g","u","r","e","_","4","_","5","/","g","r","o","w","t","h","_","r","a","t","e","s",".","h","t","m","l">>,
           <<"f","i","g","u","r","e","_","4","_","5","/","t","e","c","h","n","o","l","o","g","y","_","c","o","m","p","a","r","i","s","o","n",".","h","t","m","l">> }

\* analysis_table_4_6_visuals.py: the files written
HydrogenCharts ==
    { <<"f","i","g","u","r","e","_","4","_","6","/">> \o LowerUnderscoreNoParens(m) \o <<"_","t","r","e","n","d","s",".","h","t","m","l">> : m \in HydrogenMaterials }
    \cup { <<"f","i","g","u","r","e","_","4","_","6","/","s","c","e","n","a","r","i","o","_","c","o","m","p","a","r","i","s","o","n","_","2","0","5","0",".","h","t","m","l">>, <<"f","i","g","u","r","e","_","4","_","6","/","g","r","o","w","t","h","_","r","a","t","e","s",".","h","t","m","l">>,
           <<"f","i","g","u","r","e","_","4","_","6","/","m","a","t","e","r","i","a","l","_","c","o","m","p","a","r","i","s","o","n",".","h","t","m","l">> }

-----------------------------------------------------------------------------
(* The scripts *)

\* The parts a script file runs, in order. analysis_table_3_2_visuals.py holds
\* two scripts one after the other: the Table 3.2 plots (its first
\* `if __name__ == "__main__": main()`), then the wind parser (its second).
PartsOf(script) ==
    CASE script = "analysis_table_1.py" -> <<"demand">>
      [] script = "analysis_table_2.py" -> <<"supply">>
      [] script = "analysis_table_3_1.py" -> <<"tech demand">>
      [] script = "analysis_table_3_2.py" -> <<"mineral demand">>
      [] script = "analysis_table_4_1.py" -> <<"solar">>
      [] script = "analysis_table_4_3.py" -> <<"ev sections">>
      [] script = "analysis_table_4.3.py" -> <<"ev scenarios">>
      [] script = "analysis_table_1_visuals.py" -> <<"demand plot">>
      [] script = "analysis_table_2_visuals.py" -> <<"supply plot">>
      [] script = "analysis_table_3_2_visuals.py" -> <<"mineral demand plot", "wind">>
      [] script = "analysis_table_4_1_visuals.py" -> <<"solar plot">>
      [] script = "analysis_Table_4_2_visuals.py" -> <<"wind plot">>
      [] script = "analysis_table_4_4_visuals.py" -> <<"battery plot">>
      [] script = "analysis_table_4_5_visuals.py" -> <<"network plot">>
      [] script = "analysis_table_4_6_visuals.py" -> <<"hydrogen plot">>

ParserScripts ==
    { "analysis_table_1.py", "analysis_table_2.py", "analysis_table_3_1.py",
      "analysis_table_3_2.py", "analysis_table_4_1.py", "analysis_table_4_3.py",
      "analysis_table_4.3.py" }

PlotScripts ==
    { "analysis_table_1_visuals.py", "analysis_table_2_visuals.py",
      "analysis_table_3_2_visuals.py", "analysis_table_4_1_visuals.py",
      "analysis_Table_4_2_visuals.py", "analysis_table_4_4_visuals.py",
      "analysis_table_4_5_visuals.py", "analysis_table_4_6_visuals.py" }

\* one part of a script, run on the files f and directories d
Part(id, f, d) ==
    CASE id = "demand" ->
           Parser(f, d, <<".","/">> \o SourceWorkbook, <<"1"," ","T","o","t","a","l"," ","d","e","m","a","n","d"," ","f","o","r"," ","k","e","y"," ","m","i","n","e","r","a","l","s">>,
                  (DemandWorkbook :> DemandSheets))
      [] id = "supply" ->
           Parser(f, d, <<".","/">> \o SourceWorkbook, <<"2"," ","T","o","t","a","l"," ","s","u","p","p","l","y"," ","f","o","r"," ","k","e","y"," ","m","i","n","e","r","a","l","s">>,
                  (MiningWorkbook :> SupplySheets) @@ (RefiningWorkbook :> SupplySheets))
      [] id = "tech demand" ->
           Parser(f, d, <<".","/">> \o SourceWorkbook, <<"3",".","1"," ","C","l","e","a","n","t","e","c","h"," ","d","e","m","a","n","d"," ","b","y"," ","t","e","c","h">>,
                  (TechDemandWorkbook :> TechDemandSheets))
      [] id = "mineral demand" ->
           Parser(f, d, <<".","/">> \o SourceWorkbook, <<"3",".","2"," ","C","l","e","a","n","t","e","c","h"," ","d","e","m","a","n","d"," ","b","y"," ","m","i","n","e","r","a","l">>,
                  (MineralDemandWorkbook :> MineralDemandSheets))
      [] id = "solar" ->
           Parser(f, d, SourceWorkbook, <<"4",".","1"," ","S","o","l","a","r"," ","P","V">>, (SolarWorkbook :> SolarSheets))
      [] id = "wind" ->
           Parser(f, d, SourceWorkbook, <<"4",".","2"," ","W","i","n","d">>, (WindWorkbook :> WindSheets))
      [] id = "ev sections" ->
           Parser(f, d, SourceWorkbook, <<"4",".","3"," ","E","V">>, (EVWorkbook :> EVSectionSheets))
      [] id = "ev scenarios" ->
           Parser(f, d, SourceWorkbook, <<"4",".","3"," ","E","V">>, (EVWorkbook :> EVScenarioSheets))
      [] id = "demand plot" -> DemandPlot(f, d)
      [] id = "supply plot" -> SupplyPlot(f, d)
      [] id = "mineral demand plot" -> MineralDemandPlot(f, d)
      [] id = "solar plot" -> SolarPlot(f, d)
      [] id = "wind plot" -> WindPlot(f, d)
      [] id = "battery plot" -> Done(f, d \cup { <<"f","i","g","u","r","e","_","4","_","4">> }, Charts(BatteryCharts))
      [] id = "network plot" -> Done(f, d \cup { <<"f","i","g","u","r","e","_","4","_","5">> }, Charts(NetworkCharts))
      [] id = "hydrogen plot" -> Done(f, d \cup { <<"f","i","g","u","r","e","_","4","_","6">> }, Charts(HydrogenCharts))

\* the workbooks a part reads
InputsOf(id) ==
    CASE id \in {"demand", "supply", "tech demand", "mineral demand", "solar", "wind",
                 "ev sections", "ev scenarios"} -> {SourceWorkbook}
      [] id = "demand plot" -> {DemandPlotInput}
      [] id = "supply plot" -> {MiningPlotInput, RefiningPlotInput}
      [] id = "mineral demand plot" -> {MineralDemandPlotInput}
      [] id = "solar plot" -> {SolarPlotInput}
      [] id = "wind plot" -> {WindPlotInput}
      [] OTHER -> {}

\* the parts that wrap the read in `try: ... except FileNotFoundError:`, print
\* a message and re-raise
CatchingParts == {"demand plot", "supply plot", "solar plot"}

\* The parts of a script run one after the other; an error ends the run.
\* `before` is what the earlier parts wrote; `last` is what the part that
\* ended the run wrote.
RECURSIVE RunParts(_, _, _, _)
RunParts(parts, f, d, before) ==
    LET r == Part(Head(parts), f, d)
        all == [f |-> r.f, d |-> r.d, outcome |-> r.outcome, caught |-> r.caught,
                wrote |-> before \cup r.wrote, last |-> r.wrote,
                missing |-> r.missing, part |-> Head(parts)]
    IN  IF r.outcome # "ok" \/ Len(parts) = 1
        THEN all
        ELSE RunParts(Tail(parts), r.f, r.d, all.wrote)

\* python <script>, start to finish
RunOf(script, f, d) == RunParts(PartsOf(script), f, d, {})


-----------------------------------------------------------------------------
(* Specification: scripts run, one after the other, in a working directory *)

\* The directories a run may start from: empty; the source workbook alone;
\* the source workbook with the workbooks the plotting scripts open; those
\* workbooks without the source workbook.
\* the source workbook and, under the names the plotting scripts open, copies
\* of the workbooks the parsers write
Prepared ==
    (SourceWorkbook :> SourceSheets)
    @@ (DemandPlotInput :> DemandSheets)
    @@ (MiningPlotInput :> SupplySheets)
    @@ (RefiningPlotInput :> SupplySheets)
    @@ (MineralDemandPlotInput :> MineralDemandSheets)
    @@ (SolarPlotInput :> SolarSheets)

StartDirs ==
    { <<>>,
      (SourceWorkbook :> SourceSheets),
      Prepared,
      [p \in DOMAIN Prepared \ {SourceWorkbook} |-> Prepared[p]] }

MaxRuns == 2

NoRun ==
    [script |-> "none", outcome |-> "none", caught |-> FALSE, wrote |-> {},
     last |-> {}, missing |-> <<>>, part |-> "none", before |-> {}, had |-> {}]

\* python <script> in the working directory
Run(script) ==
    /\ runs < MaxRuns
    /\ LET r == RunOf(script, fs, dirs)
       IN  /\ fs' = r.f
           /\ dirs' = r.d
           /\ lastRun' = [script |-> script, outcome |-> r.outcome, caught |-> r.caught,
                          wrote |-> r.wrote, last |-> r.last, missing |-> r.missing,
                          part |-> r.part, before |-> completed, had |-> DOMAIN fs]
           /\ completed' = IF r.outcome = "ok" THEN completed \cup {script} ELSE completed
    /\ runs' = runs + 1
    /\ UNCHANGED <<appVars, parseVars>>

RunParser == \E s \in ParserScripts : Run(s)

RunPlot == \E s \in PlotScripts : Run(s)

ParseIdle ==
    /\ input = <<>>
    /\ call = "none"
    /\ result = <<>>

AppIdle ==
    /\ session = <<>>
    /\ rendered = {}
    /\ gate = FALSE
    /\ event = "none"
    /\ page = "Introduction"
    /\ selected = <<>>
    /\ opened = {}
    /\ notFound = {}

InitScripts ==
    /\ fs \in StartDirs
    /\ dirs = {}
    /\ lastRun = NoRun
    /\ completed = {}
    /\ runs = 0
    /\ AppIdle
    /\ ParseIdle

NextScripts == RunParser \/ RunPlot

SpecScripts == InitScripts /\ [][NextScripts]_vars

-----------------------------------------------------------------------------
(* streamlit_app.py: the login gate *)

USERNAME == <<"m","i","n","e","r","a","l","_","a","n","a","l","y","s","i","s">>
PASSWORD == <<"z","1","x","2","c","3","v","4","b","5">>

\* what a user may type in the Username box
TypedUsernames ==
    { <<>>,
      USERNAME,
      <<" ">> \o USERNAME \o <<" ", "\t">>,
      <<"m","i","n","e","r","a","l"," ","a","n","a","l","y","s","i","s">>,
      <<"a","d","m","i","n">> }

\* what a user may type in the Password box
TypedPasswords ==
    { <<>>,
      PASSWORD,
      <<"\t">> \o PASSWORD \o <<" ">>,
      <<"z","1","x","2","c","3","v","4","b">>,
      <<"Z","1","X","2","C","3","V","4","B","5">> }

LoginForm == {"title:Login Required", "text_input:username", "text_input:password", "button:Log In"}

\* s with key k bound to v (added when absent)
Put(s, k, v) == [x \in DOMAIN s \cup {k} |-> IF x = k THEN v ELSE s[x]]

\* del s[k]
Del(s, k) == [x \in DOMAIN s \ {k} |-> s[x]]

CredentialsOkUserOnly(u, p) == Strip(u) = USERNAME

\* the condition of password_entered
CredentialsOk(u, p) == Strip(u) = USERNAME /\ Strip(p) = PASSWORD

PasswordEnteredKeepsKeys(s) ==
    IF CredentialsOk(s["username"], s["password"])
    THEN Put(s, "logged_in", TRUE)
    ELSE Put(s, "logged_in", FALSE)

\* the on_click callback of the Log In button
password_entered(s) ==
    IF CredentialsOk(s["username"], s["password"])
    THEN Del(Del(Put(s, "logged_in", TRUE), "password"), "username")
    ELSE Put(s, "logged_in", FALSE)

\* lines 54-55: the flag is created on the first run of a session
InitSessionState(s) ==
    IF "logged_in" \in DOMAIN s THEN s ELSE Put(s, "logged_in", FALSE)

\* a keyed text_input registers its key, empty, when it is first drawn
WithWidgetKeys(s) ==
    LET s1 == IF "username" \in DOMAIN s THEN s ELSE Put(s, "username", <<>>)
    IN  IF "password" \in DOMAIN s1 THEN s1 ELSE Put(s1, "password", <<>>)

CheckPasswordAlways(s) == TRUE

\* check_password(): its return value
check_password(s) == s["logged_in"]

-----------------------------------------------------------------------------
(* streamlit_app.py: the pages *)

Pages ==
    { "Introduction",
      "Table 1: Total Demand for Key Minerals",
      "Table 2: Total Supply for Key Minerals",
      "Table 3.2: Cleantech Demand by Mineral",
      "Table 4.1: Solar PV",
      "Table 4.2: Wind",
      "Table 4.4: Grid Battery Storage",
      "Table 4.5: Electricity Networks",
      "Table 4.6: Hydrogen Technologies" }

\* the options of the page's selectbox, the default first
PageOptions(p) ==
    CASE p = "Table 1: Total Demand for Key Minerals" ->
           << <<"G","e","n","e","r","a","l"," ","V","i","e","w">>, <<"C","o","p","p","e","r">>, <<"C","o","b","a","l","t">>, <<"L","i","t","h","i","u","m">>, <<"N","i","c","k","e","l">>,
              <<"M","a","g","n","e","t"," ","r","a","r","e"," ","e","a","r","t","h"," ","e","l","e","m","e","n","t","s">>, <<"G","r","a","p","h","i","t","e"," ","a","l","l"," ","g","r","a","d","e","s"," ","n","a","t","u","r","a","l"," ","a","n","d">> >>
      [] p = "Table 2: Total Supply for Key Minerals" ->
           << <<"G","e","n","e","r","a","l"," ","V","i","e","w"," ","-"," ","M","i","n","i","n","g">>, <<"G","e","n","e","r","a","l"," ","V","i","e","w"," ","-"," ","R","e","f","i","n","i","n","g">>, <<"C","o","p","p","e","r">>, <<"C","o","b","a","l","t">>,
              <<"L","i","t","h","i","u","m">>, <<"N","i","c","k","e","l">>, <<"M","a","g","n","e","t"," ","r","a","r","e"," ","e","a","r","t","h"," ","e","l","e","m","e","n","t","s">>, <<"G","r","a","p","h","i","t","e">> >>
      [] p = "Table 3.2: Cleantech Demand by Mineral" -> ScenarioShort
      [] p = "Table 4.1: Solar PV" -> SolarTechs
      [] p = "Table 4.2: Wind" ->
           << <<"G","e","n","e","r","a","l"," ","V","i","e","w">>, <<"B","o","r","o","n">>, <<"C","h","r","o","m","i","u","m">>, <<"C","o","p","p","e","r">>, <<"D","y","s","p","r","o","s","i","u","m">>, <<"M","a","n","g","a","n","e","s","e">>,
              <<"M","o","l","y","b","d","e","n","u","m">>, <<"N","e","o","d","y","m","i","u","m">>, <<"N","i","c","k","e","l">>, <<"P","r","a","s","e","o","d","y","m","i","u","m">>, <<"T","e","r","b","i","u","m">>,
              <<"T","o","t","a","l"," ","w","i","n","d">>, <<"Z","i","n","c">> >>
      [] p = "Table 4.4: Grid Battery Storage" ->
           << <<"G","e","n","e","r","a","l"," ","V","i","e","w">>, <<"C","o","p","p","e","r">>, <<"C","o","b","a","l","t">>, <<"B","a","t","t","e","r","y","-","g","r","a","d","e"," ","g","r","a","p","h","i","t","e">>, <<"L","i","t","h","i","u","m">>,
              <<"M","a","n","g","a","n","e","s","e">>, <<"N","i","c","k","e","l">>, <<"S","i","l","i","c","o","n">>, <<"V","a","n","a","d","i","u","m">> >>
      [] p = "Table 4.5: Electricity Networks" ->
           << <<"O","v","e","r","v","i","e","w">>, <<"B","a","s","e"," ","c","a","s","e">>, <<"W","i","d","e","r"," ","d","i","r","e","c","t"," ","c","u","r","r","e","n","t"," ","(","D","C",")"," ","t","e","c","h","n","o","l","o","g","y"," ","d","e","v","e","l","o","p","m","e","n","t">> >>
      [] p = "Table 4.6: Hydrogen Technologies" ->
           << <<"O","v","e","r","v","i","e","w">>, <<"C","o","p","p","e","r">>, <<"C","o","b","a","l","t">>, <<"I","r","i","d","i","u","m">>, <<"N","i","c","k","e","l">>,
              <<"P","G","M","s"," ","(","o","t","h","e","r"," ","t","h","a","n"," ","i","r","i","d","i","u","m",")">>, <<"Z","i","r","c","o","n","i","u","m">>, <<"Y","t","t","r","i","u","m">>,
              <<"T","o","t","a","l"," ","h","y","d","r","o","g","e","n"," ","t","e","c","h","n","o","l","o","g","i","e","s">> >>
      [] OTHER -> << <<>> >>

\* The chart files a page opens for a selection: a sequence of try blocks, each
\* the sequence of files opened inside one `try: ... except FileNotFoundError`.
Table1Files(sel) ==
    IF sel = <<"G","e","n","e","r","a","l"," ","V","i","e","w">>
    THEN << << <<"f","i","g","u","r","e","s","_","t","o","t","a","l","_","d","e","m","a","n","d","_","c","o","m","p","a","r","i","s","o","n","_">> \o LowerUnderscore(ScenarioShort[1]) \o <<".","h","t","m","l">> >>,
            << <<"f","i","g","u","r","e","s","_","g","r","o","w","t","h","_","c","o","m","p","a","r","i","s","o","n","_">> \o LowerUnderscore(ScenarioShort[1]) \o <<".","h","t","m","l">> >>,
            << <<"f","i","g","u","r","e","s","_","t","o","t","a","l","_","d","e","m","a","n","d","_","c","o","m","p","a","r","i","s","o","n","_">> \o LowerUnderscore(ScenarioShort[2]) \o <<".","h","t","m","l">> >>,
            << <<"f","i","g","u","r","e","s","_","g","r","o","w","t","h","_","c","o","m","p","a","r","i","s","o","n","_">> \o LowerUnderscore(ScenarioShort[2]) \o <<".","h","t","m","l">> >>,
            << <<"f","i","g","u","r","e","s","_","t","o","t","a","l","_","d","e","m","a","n","d","_","c","o","m","p","a","r","i","s","o","n","_">> \o LowerUnderscore(ScenarioShort[3]) \o <<".","h","t","m","l">> >>,
            << <<"f","i","g","u","r","e","s","_","g","r","o","w","t","h","_","c","o","m","p","a","r","i","s","o","n","_">> \o LowerUnderscore(ScenarioShort[3]) \o <<".","h","t","m","l">> >> >>
    ELSE LET safe_mineral == LowerUnderscore(sel)
             proportion_mineral == KeepAlnumUnderscore(Lower(sel))
         IN  << << <<"f","i","g","u","r","e","s","_">> \o safe_mineral \o <<"_","s","t","a","t","i","s","t","i","c","s",".","h","t","m","l">> >>,
                << <<"f","i","g","u","r","e","s","_">> \o safe_mineral \o <<"_","t","r","e","n","d","s",".","h","t","m","l">> >>,
                << <<"f","i","g","u","r","e","s","/","f","i","g","u","r","e","s","_">> \o proportion_mineral \o <<"_","s","t","a","t","e","d","p","o","l","i","c","i","e","s","s","c","e","n","a","r","i","o","_","p","r","o","p","o","r","t","i","o","n","s",".","p","n","g">>,
                   <<"f","i","g","u","r","e","s","/","f","i","g","u","r","e","s","_">> \o proportion_mineral \o <<"_","a","n","n","o","u","n","c","e","d","p","l","e","d","g","e","s","s","c","e","n","a","r","i","o","_","p","r","o","p","o","r","t","i","o","n","s",".","p","n","g">>,
                   <<"f","i","g","u","r","e","s","/","f","i","g","u","r","e","s","_">> \o proportion_mineral \o <<"_","n","e","t","z","e","r","o","e","m","i","s","s","i","o","n","s","b","y","2","0","5","0","s","c","e","n","a","r","i","o","_","p","r","o","p","o","r","t","i","o","n","s",".","p","n","g">> >>,
                << <<"f","i","g","u","r","e","s","_">> \o safe_mineral \o <<"_","t","r","e","n","d","s",".","h","t","m","l">> >>,
                << <<"f","i","g","u","r","e","s","_">> \o safe_mineral \o <<"_","s","t","a","t","i","s","t","i","c","s",".","h","t","m","l">> >> >>

Table2Files(sel) ==
    IF Contains(sel, <<"G","e","n","e","r","a","l"," ","V","i","e","w">>)
    THEN LET activity == IF Contains(sel, <<"M","i","n","i","n","g">>) THEN <<"m","i","n","i","n","g">> ELSE <<"r","e","f","i","n","i","n","g">>
         IN  << << <<"f","i","g","u","r","e","_","2","_","s","u","m","m","a","r","y","_","s","t","a","t","i","s","t","i","c","s","_">> \o activity \o <<".","h","t","m","l">> >>,
                << <<"f","i","g","u","r","e","_","2","_","c","o","u","n","t","r","y","_","d","o","m","i","n","a","n","c","e","_">> \o activity \o <<"_","2","0","2","3",".","h","t","m","l">> >>,
                << <<"f","i","g","u","r","e","_","2","_","c","o","u","n","t","r","y","_","d","o","m","i","n","a","n","c","e","_">> \o activity \o <<"_","2","0","4","0",".","h","t","m","l">> >> >>
    ELSE << << <<"f","i","g","u","r","e","_","2","_","m","i","n","i","n","g","_","s","t","a","t","i","s","t","i","c","s",".","h","t","m","l">> >>,
            << <<"f","i","g","u","r","e","_","2","_","r","e","f","i","n","i","n","g","_","s","t","a","t","i","s","t","i","c","s",".","h","t","m","l">> >>,
            << <<"f","i","g","u","r","e","_","2","_","m","i","n","i","n","g","_","t","r","e","n","d",".","h","t","m","l">> >>,
            << <<"f","i","g","u","r","e","_","2","_","r","e","f","i","n","i","n","g","_","t","r","e","n","d",".","h","t","m","l">> >> >>

Table32Files(sel) ==
    LET safe_scenario == LowerUnderscore(sel)
    IN  << << <<"f","i","g","u","r","e","_","3","_","2","_","s","t","a","t","i","s","t","i","c","s","_">> \o safe_scenario \o <<".","h","t","m","l">> >>,
           << <<"f","i","g","u","r","e","_","3","_","2","_","t","o","p","_","g","r","o","w","i","n","g","_","m","e","t","a","l","s","_">> \o safe_scenario \o <<".","h","t","m","l">> >>,
           << <<"f","i","g","u","r","e","_","3","_","2","_","t","o","p","_","d","e","c","l","i","n","i","n","g","_","m","e","t","a","l","s","_">> \o safe_scenario \o <<".","h","t","m","l">> >> >>

Table41Files(sel) ==
    LET safe_tech == ReplaceChar(sel, " ", <<"_">>)
    IN  << << <<"f","i","g","u","r","e","_","4","_","1","_">> \o safe_tech \o <<"_","s","t","a","t","i","s","t","i","c","s","_","t","a","b","l","e",".","h","t","m","l">> >>,
           << <<"f","i","g","u","r","e","_","4","_","1","_">> \o safe_tech \o <<"_","k","e","y","_","f","i","n","d","i","n","g","s",".","h","t","m","l">> >>,
           << <<"f","i","g","u","r","e","_","4","_","1","_">> \o safe_tech \o <<"_","a","g","g","r","e","g","a","t","e","_","t","r","e","n","d","s",".","h","t","m","l">> >>,
           << <<"f","i","g","u","r","e","_","4","_","1","_">> \o safe_tech \o <<"_","2","0","5","0","_","c","o","m","p","a","r","i","s","o","n",".","h","t","m","l">> >>,
           << <<"f","i","g","u","r","e","_","4","_","1","_">> \o safe_tech \o <<"_","g","r","o","w","t","h","_","r","a","t","e","s",".","h","t","m","l">> >> >>

Table42Files(sel) ==
    IF sel = <<"G","e","n","e","r","a","l"," ","V","i","e","w">>
    THEN << << <<"f","i","g","u","r","e","_","4","_","2","_","s","u","p","p","l","y","_","c","o","n","s","t","r","a","i","n","t","_","i","m","p","a","c","t",".","h","t","m","l">> >>,
            << <<"f","i","g","u","r","e","_","4","_","2","_","g","r","o","w","t","h","_","r","a","t","e","s",".","h","t","m","l">> >>,
            << <<"f","i","g","u","r","e","_","4","_","2","_","s","t","a","t","i","s","t","i","c","s","_","b","a","s","e","_","c","a","s","e",".","h","t","m","l">> >>,
            << <<"f","i","g","u","r","e","_","4","_","2","_","s","t","a","t","i","s","t","i","c","s","_","c","o","n","s","t","r","a","i","n","e","d",".","h","t","m","l">> >> >>
    ELSE << << <<"f","i","g","u","r","e","_","4","_","2","_","b","a","s","e","_","c","a","s","e","_","t","r","e","n","d","s",".","h","t","m","l">> >>,
            << <<"f","i","g","u","r","e","_","4","_","2","_","c","o","n","s","t","r","a","i","n","e","d","_","c","a","s","e","_","t","r","e","n","d","s",".","h","t","m","l">> >>,
            << <<"f","i","g","u","r","e","_","4","_","2","_","b","a","s","e","_","c","a","s","e","_","t","r","e","n","d","s",".","h","t","m","l">> >>,
            << <<"f","i","g","u","r","e","_","4","_","2","_","c","o","n","s","t","r","a","i","n","e","d","_","c","a","s","e","_","t","r","e","n","d","s",".","h","t","m","l">> >> >>

Table44Files(sel) ==
    IF sel = <<"G","e","n","e","r","a","l"," ","V","i","e","w">>
    THEN << << <<"f","i","g","u","r","e","_","4","_","4","_","t","o","t","a","l","_","d","e","m","a","n","d","_","t","r","e","n","d","s",".","h","t","m","l">> >>,
            << <<"f","i","g","u","r","e","_","4","_","4","_","s","c","e","n","a","r","i","o","_","c","o","m","p","a","r","i","s","o","n","_","2","0","5","0",".","h","t","m","l">> >>,
            << <<"f","i","g","u","r","e","_","4","_","4","_","g","r","o","w","t","h","_","r","a","t","e","s",".","h","t","m","l">> >> >>
    ELSE LET safe_material == LowerUnderscore(sel)
         IN  << << <<"f","i","g","u","r","e","_","4","_","4","_">> \o safe_material \o <<"_","t","r","e","n","d","s",".","h","t","m","l">> >>,
                << <<"f","i","g","u","r","e","_","4","_","4","_">> \o safe_material \o <<"_","t","r","e","n","d","s",".","h","t","m","l">> >> >>

Table45Files(sel) ==
    IF sel = <<"O","v","e","r","v","i","e","w">>
    THEN << << <<"f","i","g","u","r","e","_","4","_","5","_","t","e","c","h","n","o","l","o","g","y","_","c","o","m","p","a","r","i","s","o","n",".","h","t","m","l">> >>,
            << <<"f","i","g","u","r","e","_","4","_","5","_","s","c","e","n","a","r","i","o","_","c","o","m","p","a","r","i","s","o","n","_","2","0","5","0",".","h","t","m","l">> >>,
            << <<"f","i","g","u","r","e","_","4","_","5","_","g","r","o","w","t","h","_","r","a","t","e","s",".","h","t","m","l">> >> >>
    ELSE LET filename == IF sel = <<"B","a","s","e"," ","c","a","s","e">>
                         THEN <<"f","i","g","u","r","e","_","4","_","5","_","b","a","s","e","_","c","a","s","e","_","t","r","e","n","d","s",".","h","t","m","l">>
                         ELSE <<"f","i","g","u","r","e","_","4","_","5","_","w","i","d","e","r","_","d","i","r","e","c","t","_","c","u","r","r","e","n","t","_","d","c","_","t","e","c","h","n","o","l","o","g","y","_","d","e","v","e","l","o","p","m","e","n","t","_","t","r","e","n","d","s",".","h","t","m","l">>
         IN  << << <<"f","i","g","u","r","e","_","4","_","5","_">> \o filename >>,
                << <<"f","i","g","u","r","e","_","4","_","5","_">> \o filename >> >>

Table46Files(sel) ==
    IF sel = <<"O","v","e","r","v","i","e","w">>
    THEN << << <<"f","i","g","u","r","e","_","4","_","6","_","m","a","t","e","r","i","a","l","_","c","o","m","p","a","r","i","s","o","n",".","h","t","m","l">> >>,
            << <<"f","i","g","u","r","e","_","4","_","6","_","s","c","e","n","a","r","i","o","_","c","o","m","p","a","r","i","s","o","n","_","2","0","5","0",".","h","t","m","l">> >>,
            << <<"f","i","g","u","r","e","_","4","_","6","_","g","r","o","w","t","h","_","r","a","t","e","s",".","h","t","m","l">> >> >>
    ELSE LET safe_material == LowerUnderscoreNoParens(sel)
             filename == <<"f","i","g","u","r","e","_","4","_","6","_">> \o safe_material \o <<"_","t","r","e","n","d","s",".","h","t","m","l">>
         IN  << << filename >>, << filename >> >>

PageFiles(p, sel) ==
    CASE p = "Table 1: Total Demand for Key Minerals" -> Table1Files(sel)
      [] p = "Table 2: Total Supply for Key Minerals" -> Table2Files(sel)
      [] p = "Table 3.2: Cleantech Demand by Mineral" -> Table32Files(sel)
      [] p = "Table 4.1: Solar PV" -> Table41Files(sel)
      [] p = "Table 4.2: Wind" -> Table42Files(sel)
      [] p = "Table 4.4: Grid Battery Storage" -> Table44Files(sel)
      [] p = "Table 4.5: Electricity Networks" -> Table45Files(sel)
      [] p = "Table 4.6: Hydrogen Technologies" -> Table46Files(sel)
      [] OTHER -> <<>>

\* the files of one try block that are opened: up to the first missing one
RECURSIVE TryOpen(_, _)
TryOpen(block, f) ==
    IF block = <<>> THEN {}
    ELSE IF Head(block) \notin DOMAIN f THEN {Head(block)}
    ELSE {Head(block)} \cup TryOpen(Tail(block), f)

Opened(p, sel, f) ==
    LET blocks == PageFiles(p, sel)
    IN  UNION { TryOpen(blocks[i], f) : i \in 1..Len(blocks) }

\* streamlit_app.py, lines 11-17: the modules imported with
\* `from ... import *`, in order
StarImports ==
    << "analysis_table_1_visuals", "analysis_table_2_visuals", "analysis_table_4_1_visuals",
       "analysis_table_4_4_visuals", "analysis_table_4_5_visuals", "analysis_table_4_6_visuals" >>

\* the label columns of the DataFrame made by create_dataframe of a module
\* that defines one, with its 'Base case' column and the 2050 column of each
\* scenario; the kt values are written in hundredths
create_dataframe(module) ==
    CASE module = "analysis_table_4_4_visuals" ->
           [Material |-> << <<"C","o","p","p","e","r">>, <<"C","o","b","a","l","t">>, <<"B","a","t","t","e","r","y","-","g","r","a","d","e"," ","g","r","a","p","h","i","t","e">>, <<"L","i","t","h","i","u","m">>, <<"M","a","n","g","a","n","e","s","e">>, <<"N","i","c","k","e","l">>, <<"S","i","l","i","c","o","n">>, <<"V","a","n","a","d","i","u","m">> >>]
             @@ ("Base case" :> <<3960, 253, 8662, 922, 266, 1211, 24, 0>>)
             @@ ("Stated Policies_2050" :> <<54467, 0, 67700, 7664, 0, 0, 1765, 46911>>)
             @@ ("Announced Pledges_2050" :> <<70153, 0, 87196, 9872, 0, 0, 2274, 60420>>)
             @@ ("Net Zero_2050" :> <<89764, 0, 111571, 12631, 0, 0, 2909, 77310>>)
      [] module = "analysis_table_4_5_visuals" ->
           [Technology |-> << <<"B","a","s","e"," ","c","a","s","e">>, <<"W","i","d","e","r"," ","d","i","r","e","c","t"," ","c","u","r","r","e","n","t"," ","(","D","C",")"," ","t","e","c","h","n","o","l","o","g","y"," ","d","e","v","e","l","o","p","m","e","n","t">> >>,
            Material |-> << <<"C","o","p","p","e","r">>, <<"C","o","p","p","e","r">> >>]
             @@ ("Base case" :> <<414350, 411840>>)
             @@ ("Stated Policies_2050" :> <<608440, 556544>>)
             @@ ("Announced Pledges_2050" :> <<809600, 740693>>)
             @@ ("Net Zero_2050" :> <<924550, 844760>>)
      [] module = "analysis_table_4_6_visuals" ->
           [Material |-> << <<"C","o","p","p","e","r">>, <<"C","o","b","a","l","t">>, <<"I","r","i","d","i","u","m">>, <<"N","i","c","k","e","l">>, <<"P","G","M","s"," ","(","o","t","h","e","r"," ","t","h","a","n"," ","i","r","i","d","i","u","m",")">>, <<"Z","i","r","c","o","n","i","u","m">>, <<"Y","t","t","r","i","u","m">>, <<"T","o","t","a","l"," ","h","y","d","r","o","g","e","n"," ","t","e","c","h","n","o","l","o","g","i","e","s">> >>]
             @@ ("Base case" :> <<0, 0, 0, 100, 0, 10, 0, 110>>)
             @@ ("Stated Policies_2050" :> <<0, 0, 0, 540, 0, 70, 0, 610>>)
             @@ ("Announced Pledges_2050" :> <<20, 10, 0, 6400, 10, 870, 0, 7300>>)
             @@ ("Net Zero_2050" :> <<20, 10, 0, 7540, 10, 1030, 0, 8610>>)

\* the module whose create_dataframe the name is bound to after the imports:
\* the last one imported that defines it
BoundCreateDataframe ==
    LET defining == {i \in 1..Len(StarImports) :
                        StarImports[i] \in {"analysis_table_4_4_visuals", "analysis_table_4_5_visuals",
                                            "analysis_table_4_6_visuals"}}
    IN  StarImports[CHOOSE i \in defining : \A j \in defining : j <= i]

\* The 'Growth Rates (2023-2050)' column of the insights section, for row i
\* of df: the lines the page writes under the heading. The Table 4.4 page
\* computes the growth of each scenario and writes none of them; the
\* Table 4.5 and Table 4.6 pages write one line per scenario.
GrowthRates(p, df, i) ==
    LET base == df["Base case"][i]
        lines == {"write:- Stated Policies: growth%", "write:- Announced Pledges: growth%",
                  "write:- Net Zero: growth%"}
    IN  CASE p = "Table 4.4: Grid Battery Storage" ->
               IF base # 0 THEN {}
               ELSE {"write:Growth rates not available (zero base value)"}
          [] p = "Table 4.5: Electricity Networks" -> lines
          [] p = "Table 4.6: Hydrogen Technologies" ->
               IF base # 0 THEN lines
               ELSE IF \E c \in {"Stated Policies_2050", "Announced Pledges_2050", "Net Zero_2050"} :
                          df[c][i] > 0
               THEN {"write:Growth from zero baseline - infinite growth rate"}
               ELSE {"write:No demand in baseline or projections"}

\* The insights section of a page for a selection other than its first
\* option: df = create_dataframe(), then df[df[column] == selection].iloc[0].
\* A missing column raises KeyError and a missing row IndexError; only the
\* Table 4.5 page catches IndexError, and shows an error message.
Insights(p, sel) ==
    LET df == create_dataframe(BoundCreateDataframe)
        column == IF p = "Table 4.5: Electricity Networks" THEN "Technology" ELSE "Material"
    IN  IF \/ p \notin {"Table 4.4: Grid Battery Storage", "Table 4.5: Electricity Networks",
                        "Table 4.6: Hydrogen Technologies"}
           \/ sel = PageOptions(p)[1]
        THEN {}
        ELSE IF column \notin DOMAIN df THEN {"exception:KeyError"}
        ELSE IF sel \notin Range(df[column])
        THEN IF p = "Table 4.5: Electricity Networks"
             THEN {"error:Could not find technology data"}
             ELSE {"exception:IndexError"}
        ELSE LET i == CHOOSE k \in 1..Len(df[column]) :
                          /\ df[column][k] = sel
                          /\ \A j \in 1..(k - 1) : df[column][j] # sel
             IN  {"insights:" \o BoundCreateDataframe} \cup GrowthRates(p, df, i)

\* One run of the script, top to bottom, on session state s0.
ScriptRun(s0, ev) ==
    LET s == InitSessionState(s0)
    IN  /\ event' = ev
        /\ gate' = check_password(s)
        /\ UNCHANGED <<scriptVars, parseVars>>
        /\ IF check_password(s)
           THEN /\ session' = s
                /\ rendered' = {"sidebar:Navigation", "radio:Select a Page", "page:" \o page'}
                                  \cup Insights(page', selected')
                /\ opened' = Opened(page', selected', fs)
                /\ notFound' = Opened(page', selected', fs) \ DOMAIN fs
           ELSE /\ session' = WithWidgetKeys(s)
                /\ rendered' = LoginForm
                /\ opened' = {}
                /\ notFound' = {}

\* The browser opens the app: a new session, first run.
Open ==
    /\ DOMAIN session = {}
    /\ UNCHANGED <<page, selected>>
    /\ ScriptRun(session, "open")

\* The user edits the Username box; Streamlit reruns the script.
TypeUsername ==
    /\ "text_input:username" \in rendered
    /\ \E u \in TypedUsernames :
        /\ u # session["username"]
        /\ UNCHANGED <<page, selected>>
        /\ ScriptRun(Put(session, "username", u), "type")

\* The user edits the Password box; Streamlit reruns the script.
TypePassword ==
    /\ "text_input:password" \in rendered
    /\ \E p \in TypedPasswords :
        /\ p # session["password"]
        /\ UNCHANGED <<page, selected>>
        /\ ScriptRun(Put(session, "password", p), "type")

\* The user clicks Log In: the callback runs, then the script reruns.
ClickLogIn ==
    /\ "button:Log In" \in rendered
    /\ UNCHANGED <<page, selected>>
    /\ ScriptRun(password_entered(session), "click")

\* The user picks a page in the sidebar; the page's selectbox is new and shows
\* its first option.
SelectPage ==
    /\ "radio:Select a Page" \in rendered
    /\ \E p \in Pages :
        /\ p # page
        /\ page' = p
        /\ selected' = PageOptions(p)[1]
        /\ ScriptRun(session, "select page")

\* The user picks an option of the page's selectbox.
SelectOption ==
    /\ "radio:Select a Page" \in rendered
    /\ \E i \in 1..Len(PageOptions(page)) :
        /\ PageOptions(page)[i] # selected
        /\ page' = page
        /\ selected' = PageOptions(page)[i]
        /\ ScriptRun(session, "select option")

-----------------------------------------------------------------------------
(* Specification: a browser session of the dashboard *)

\* every script once, the parsers before the plotting scripts
Pipeline ==
    << "analysis_table_1.py", "analysis_table_2.py", "analysis_table_3_1.py",
       "analysis_table_3_2.py", "analysis_table_4_1.py", "analysis_table_4_3.py",
       "analysis_table_4.3.py",
       "analysis_table_1_visuals.py", "analysis_table_2_visuals.py",
       "analysis_table_3_2_visuals.py", "analysis_table_4_1_visuals.py",
       "analysis_Table_4_2_visuals.py", "analysis_table_4_4_visuals.py",
       "analysis_table_4_5_visuals.py", "analysis_table_4_6_visuals.py" >>

\* the directory after the scripts of `scripts` have run in order, and the
\* scripts among them that ran to their end
RECURSIVE RunAll(_, _, _, _)
RunAll(scripts, f, d, done) ==
    IF scripts = <<>> THEN [f |-> f, d |-> d, completed |-> done]
    ELSE LET r == RunOf(Head(scripts), f, d)
         IN  RunAll(Tail(scripts), r.f, r.d,
                    IF r.outcome = "ok" THEN done \cup {Head(scripts)} ELSE done)

\* The dashboard is started in a directory in which the scripts have run, or
\* have not.
InitApp ==
    /\ \E start \in StartDirs, ran \in BOOLEAN :
        LET r == IF ran THEN RunAll(Pipeline, start, {}, {})
                 ELSE [f |-> start, d |-> {}, completed |-> {}]
        IN  /\ fs = r.f
            /\ dirs = r.d
            /\ completed = r.completed
    /\ lastRun = NoRun
    /\ runs = 0
    /\ AppIdle
    /\ ParseIdle

NextApp ==
    \/ Open
    \/ TypeUsername
    \/ TypePassword
    \/ ClickLogIn
    \/ SelectPage
    \/ SelectOption

SpecApp == InitApp /\ [][NextApp]_vars

-----------------------------------------------------------------------------
(* pandas: a sheet read into a DataFrame *)

\* A cell is NaN, a number (its decimal digits) or a text. A row keeps, in
\* `id`, its position in the sheet as read; a DataFrame keeps, in `cols`, the
\* positions in the sheet of its columns.
NaN == [t |-> "nan", v |-> <<>>]

Num(digits) == [t |-> "num", v |-> digits]

Str(s) == [t |-> "str", v |-> s]

\* pd.notna
notna(c) == c.t # "nan"

\* the DataFrame of a sheet whose rows are the cell sequences of `cells`
DataFrame(cells) ==
    [cols |-> IF cells = <<>> THEN <<>> ELSE [j \in 1..Len(cells[1]) |-> j],
     rows |-> [i \in 1..Len(cells) |-> [id |-> i, c |-> cells[i]]]]

\* row.iloc[k], df.iloc[k]: positions count from 0
iloc(s, k) == s[k + 1]

\* df.iloc[a:b]
Slice(s, a, b) == SubSeq(s, a + 1, b)

\* df.dropna(how='all')
dropna_rows(df) ==
    [df EXCEPT !.rows = SelectSeq(df.rows, LAMBDA r : \E j \in 1..Len(r.c) : notna(r.c[j]))]

\* the elements of s at the positions of keep, in order
RECURSIVE Pick(_, _, _)
Pick(s, keep, j) ==
    IF j > Len(s) THEN <<>>
    ELSE (IF j \in keep THEN <<s[j]>> ELSE <<>>) \o Pick(s, keep, j + 1)

\* df.dropna(axis=1, how='all')
dropna_cols(df) ==
    LET keep == {j \in 1..Len(df.cols) : \E i \in 1..Len(df.rows) : notna(df.rows[i].c[j])}
    IN  [cols |-> Pick(df.cols, keep, 1),
         rows |-> [i \in 1..Len(df.rows) |->
                     [id |-> df.rows[i].id, c |-> Pick(df.rows[i].c, keep, 1)]]]

\* df.dropna(how='all').dropna(axis=1, how='all').reset_index(drop=True)
DropEmpty(df) == dropna_cols(dropna_rows(df))

\* `2023 in row.values`: some cell is the number 2023 (a text "2023" is not)
Y2023 == <<"2","0","2","3">>

Has2023(r) == \E j \in 1..Len(r.c) : r.c[j].t = "num" /\ r.c[j].v = Y2023

\* the value of a number written in decimal digits
RECURSIVE ToInt(_)
ToInt(ds) ==
    IF ds = <<>> THEN 0
    ELSE 10 * ToInt(SubSeq(ds, 1, Len(ds) - 1))
         + (CHOOSE k \in 0..9 : DIGITS[k + 1] = ds[Len(ds)])

\* sorted(list(set(xs))) for a set of numbers
Sorted(xs) ==
    [i \in 1..Cardinality(xs) |->
        CHOOSE x \in xs : Cardinality({y \in xs : ToInt(y) < ToInt(x)}) = i - 1]

-----------------------------------------------------------------------------
(* analysis_table_2.py, analysis_table_3_1.py, analysis_table_3_2.py:
   the year row *)

\* the loop of lines 27-34 without its break: the last row with 2023
RECURSIVE LastYearRow(_, _)
LastYearRow(rows, idx) ==
    IF idx >= Len(rows) THEN -1
    ELSE LET later == LastYearRow(rows, idx + 1)
         IN  IF later # -1 THEN later
             ELSE IF Has2023(iloc(rows, idx)) THEN idx ELSE -1

\* for idx, row in df.iterrows(): if 2023 in row.values: year_row = idx; break
\* (-1 stands for None)
RECURSIVE FindYearRow(_, _)
FindYearRow(rows, idx) ==
    IF idx >= Len(rows) THEN -1
    ELSE IF Has2023(iloc(rows, idx)) THEN idx
    ELSE FindYearRow(rows, idx + 1)

\* the same body without the test of lines 33-34
CleanByYearRowNoRaise(df0) ==
    LET df == DropEmpty(df0)
    IN  [error |-> "none", year_row |-> -1, year_row_data |-> <<>>, year_row_id |-> 0,
         years |-> <<>>, data_rows |-> df.rows]

\* the body shared by clean_mineral_supply_data, clean_demand_scenario_data
\* and clean_demand_data
CleanByYearRow(df0) ==
    LET df == DropEmpty(df0)
        year_row == FindYearRow(df.rows, 0)
    IN  IF year_row = -1
        THEN [error |-> "ValueError: Could not find year row with 2023",
              year_row |-> -1, year_row_data |-> <<>>, year_row_id |-> 0,
              years |-> <<>>, data_rows |-> <<>>]
        ELSE LET year_row_data == iloc(df.rows, year_row)
                 data_rows == dropna_rows([df EXCEPT !.rows = Slice(df.rows, year_row + 1, Len(df.rows))])
             IN  [error |-> "none",
                  year_row |-> year_row,
                  year_row_data |-> year_row_data.c,
                  year_row_id |-> year_row_data.id,
                  years |-> Sorted({year_row_data.c[j].v : j \in {k \in 1..Len(year_row_data.c) :
                                                                  year_row_data.c[k].t = "num"}}),
                  data_rows |-> data_rows.rows]

\* analysis_table_2.py
clean_mineral_supply_data(df) == CleanByYearRow(df)

\* analysis_table_3_1.py
clean_demand_scenario_data(df) == CleanByYearRow(df)

\* analysis_table_3_2.py
clean_demand_data(df) == CleanByYearRow(df)

-----------------------------------------------------------------------------
(* Specification: the year-row search of the Table 2, 3.1 and 3.2 parsers,
   applied to small sheets *)

GridCells == {NaN, Num(Y2023), Str(Y2023), Num(<<"7">>)}

MaxGridRows == 3

\* the sheets of two columns
Grids == UNION {[1..n -> [1..2 -> GridCells]] : n \in 0..MaxGridRows}

ScriptsIdle ==
    /\ fs = <<>>
    /\ dirs = {}
    /\ lastRun = NoRun
    /\ completed = {}
    /\ runs = 0

\* one function is applied, once, to the DataFrame
Apply(name, value) ==
    /\ call = "none"
    /\ call' = name
    /\ result' = value
    /\ UNCHANGED <<input, scriptVars, appVars>>

CleanSupplyData ==
    /\ input.sheet = "2 Total supply for key minerals"
    /\ Apply("clean_mineral_supply_data", clean_mineral_supply_data(input.df))

CleanDemandScenarioData ==
    /\ input.sheet = "3.1 Cleantech demand by tech"
    /\ Apply("clean_demand_scenario_data", clean_demand_scenario_data(input.df))

CleanDemandData ==
    /\ input.sheet = "3.2 Cleantech demand by mineral"
    /\ Apply("clean_demand_data", clean_demand_data(input.df))

InitYearRow ==
    /\ \E g \in Grids, s \in {"2 Total supply for key minerals", "3.1 Cleantech demand by tech",
                              "3.2 Cleantech demand by mineral"} :
           input = [sheet |-> s, df |-> DataFrame(g)]
    /\ call = "none"
    /\ result = <<>>
    /\ ScriptsIdle
    /\ AppIdle

NextYearRow == CleanSupplyData \/ CleanDemandScenarioData \/ CleanDemandData

SpecYearRow == InitYearRow /\ [][NextYearRow]_vars

-----------------------------------------------------------------------------
(* The section parsers: analysis_table_4_1.py, analysis_table_4.3.py,
   analysis_table_4_3.py *)

\* str(row.iloc[0]).strip() if pd.notna(row.iloc[0]) else ''
Label(r) == IF notna(iloc(r.c, 0)) THEN Strip(iloc(r.c, 0).v) ELSE <<>>

\* The loop over df.iterrows() that records, for a section name, the index of
\* the last row whose first cell contains it (-1 stands for None).
SectionStart(rows, name) ==
    LET hits == {i \in 0..(Len(rows) - 1) :
                    /\ notna(iloc(iloc(rows, i).c, 0))
                    /\ Contains(iloc(iloc(rows, i).c, 0).v, name)}
    IN  IF hits = {} THEN -1 ELSE CHOOSE i \in hits : \A j \in hits : j <= i

\* section_indices: (name, start, end) of the sections found, in the order of
\* names; a section ends where the next name starts, or at the end of the
\* DataFrame when it is the last name or the next name was not found
\* (df.iloc[start:None])
Sections(rows, names) ==
    SelectSeq([k \in 1..Len(names) |->
                 [name |-> names[k],
                  start |-> SectionStart(rows, names[k]),
                  end |-> IF k < Len(names) /\ SectionStart(rows, names[k + 1]) # -1
                          THEN SectionStart(rows, names[k + 1])
                          ELSE Len(rows)]],
              LAMBDA s : s.start # -1)

\* The sheet of a workbook after to_excel writes `rows` over `old`: the writer
\* reuses the sheet of that name and overwrites its cells from the top.
Overlay(old, rows) == rows \o SubSeq(old, Len(rows) + 1, Len(old))

\* to_excel, one call after the other, on an ExcelWriter opened with mode='w';
\* a write is [name, rows]
RECURSIVE WriteSheets(_, _)
WriteSheets(wb, writes) ==
    IF writes = <<>> THEN wb
    ELSE LET w == Head(writes)
             sheet == IF w.name \in DOMAIN wb THEN Overlay(wb[w.name], w.rows) ELSE w.rows
         IN  WriteSheets([n \in DOMAIN wb \cup {w.name} |-> IF n = w.name THEN sheet ELSE wb[n]],
                         Tail(writes))

\* the writes of save_to_excel of analysis_table_4_1.py and analysis_table_4.3.py:
\* the Overview sheet, then for every technology with rows and every scenario
\* a sheet named clean_sheet_name(f"{tech}_{scenario}")
RECURSIVE ScenarioWrites(_)
ScenarioWrites(technologies) ==
    IF technologies = <<>> THEN <<>>
    ELSE LET t == Head(technologies)
         IN  (IF t.rows = <<>> THEN <<>>
              ELSE [s \in 1..3 |->
                      [name |-> clean_sheet_name(t.tech \o <<"_">> \o ScenarioLong[s]),
                       rows |-> [k \in 1..Len(t.rows) |->
                                   [src |-> t.rows[k].src, tech |-> t.tech, scenario |-> s,
                                    label |-> t.rows[k].label, v |-> t.rows[k].v[s]]]]])
             \o ScenarioWrites(Tail(technologies))

\* analysis_table_4_1.py: materials
SolarMaterials ==
    { <<"C","a","d","m","i","u","m">>, <<"C","o","p","p","e","r">>, <<"G","a","l","l","i","u","m">>, <<"G","e","r","m","a","n","i","u","m">>, <<"I","n","d","i","u","m">>, <<"L","e","a","d">>, <<"M","o","l","y","b","d","e","n","u","m">>,
      <<"N","i","c","k","e","l">>, <<"S","e","l","e","n","i","u","m">>, <<"S","i","l","i","c","o","n">>, <<"S","i","l","v","e","r">>, <<"T","e","l","l","u","r","i","u","m">>, <<"T","i","n">>, <<"Z","i","n","c">>, <<"A","r","s","e","n","i","c">> }

\* the years after the base year
ScenarioYears == << <<"2","0","3","0">>, <<"2","0","3","5">>, <<"2","0","4","0">>, <<"2","0","4","5">>, <<"2","0","5","0">> >>

\* year_cols[year]: every numeric cell of the year row assigns its column to
\* its year, so the last column of a year stays; -1 when the year has no
\* column (the lookup raises KeyError)
YearCol(year_row, year) ==
    LET cols == {j \in 0..(Len(year_row.c) - 1) :
                    iloc(year_row.c, j).t = "num" /\ iloc(year_row.c, j).v = year}
    IN  IF cols = {} THEN -1 ELSE CHOOSE j \in cols : \A k \in cols : k <= j

\* clean_solar_data, the body of the loop over the sections: the year row is
\* the first row of the section whose second cell is 2023; every later row
\* labelled with a material gives a row whose v[s][y] is the value stored
\* under f"{scenario}_{year}"
SolarSection(df, sec) ==
    LET rows == Slice(df.rows, sec.start, sec.end)
        at2023 == {i \in 0..(Len(rows) - 1) : iloc(iloc(rows, i).c, 1) = Num(Y2023)}
        year_row_idx == IF at2023 = {} THEN -1 ELSE CHOOSE i \in at2023 : \A j \in at2023 : i <= j
        year_row == iloc(rows, year_row_idx)
        picked == SelectSeq(SubSeq(rows, year_row_idx + 2, Len(rows)),
                            LAMBDA r : Label(r) \in SolarMaterials)
        stored(r) == [y \in {Y2023} \cup Range(ScenarioYears) |-> iloc(r.c, YearCol(year_row, y))]
    IN  IF year_row_idx = -1 THEN [tech |-> sec.name, found |-> FALSE, error |-> "none", rows |-> <<>>]
        ELSE IF picked # <<>> /\ \E y \in {Y2023} \cup Range(ScenarioYears) : YearCol(year_row, y) = -1
        THEN [tech |-> sec.name, found |-> TRUE, error |-> "KeyError", rows |-> <<>>]
        ELSE [tech |-> sec.name, found |-> TRUE, error |-> "none",
              rows |-> [k \in 1..Len(picked) |->
                          [src |-> picked[k].id, label |-> Label(picked[k]),
                           v |-> [s \in 1..3 |-> stored(picked[k])]]]]

\* analysis_table_4_1.py: clean_solar_data, then save_to_excel
SolarParser(df0) ==
    LET df == DropEmpty(df0)
        secs == Sections(df.rows, SolarTechs)
        done == [k \in 1..Len(secs) |-> SolarSection(df, secs[k])]
        technologies == SelectSeq(done, LAMBDA t : t.found)
    IN  IF secs # <<>> /\ Len(df.cols) < 2
        THEN [error |-> "IndexError", technologies |-> <<>>, sheets |-> <<>>]
        ELSE IF \E k \in 1..Len(done) : done[k].error # "none"
        THEN [error |-> "KeyError", technologies |-> <<>>, sheets |-> <<>>]
        ELSE [error |-> "none", technologies |-> technologies,
              sheets |-> WriteSheets(<<>>, << [name |-> <<"O","v","e","r","v","i","e","w">>, rows |-> <<>>] >>
                                           \o ScenarioWrites(technologies))]

\* analysis_table_4.3.py: materials
EVMaterials ==
    { <<"C","o","p","p","e","r">>, <<"C","o","b","a","l","t">>, <<"B","a","t","t","e","r","y","-","g","r","a","d","e"," ","g","r","a","p","h","i","t","e">>, <<"L","i","t","h","i","u","m">>, <<"M","a","n","g","a","n","e","s","e">>, <<"N","i","c","k","e","l">>,
      <<"S","i","l","i","c","o","n">>, <<"N","e","o","d","y","m","i","u","m">>, <<"D","y","s","p","r","o","s","i","u","m">>, <<"P","r","a","s","e","o","d","y","m","i","u","m">>, <<"T","e","r","b","i","u","m">>, <<"T","o","t","a","l"," ","E","V">> }

\* the names row_data gives to the columns 2..16 of a material row, in
\* analysis_table_4.3.py and in the wind parser: f'Stated Policies_{year}',
\* f'Announced Pledges_{year}', f'Net Zero_{year}'
WideColumns ==
    [p \in (1..3) \X (1..5) |-> ScenarioShort[p[1]] \o <<"_">> \o ScenarioYears[p[2]]]

\* row_data of a material row with the cells c, without its label: '2023' is
\* column 1, the columns of Stated Policies are 2..6, of Announced Pledges
\* 7..11, of Net Zero 12..16
row_data(c) ==
    [name \in {Y2023} \cup {WideColumns[p] : p \in DOMAIN WideColumns} |->
        IF name = Y2023 THEN iloc(c, 1)
        ELSE LET p == CHOOSE q \in DOMAIN WideColumns : WideColumns[q] = name
             IN  iloc(c, 2 + 5 * (p[1] - 1) + (p[2] - 1))]

\* df[['2023'] + [col for col in df.columns if scenario in col]]
ScenarioView(data, scenario) ==
    [name \in {n \in DOMAIN data : n = Y2023 \/ Contains(n, scenario)} |-> data[name]]

\* analysis_table_4.3.py: clean_ev_data, then save_to_excel. A material row
\* reads the fixed columns 1, 2..6, 7..11 and 12..16; the columns saved for a
\* scenario are 'Material', '2023' and those whose name contains the
\* scenario's name.
EVScenarioParser(df0) ==
    LET df == DropEmpty(df0)
        secs == Sections(df.rows, EVSections)
        picked(sec) == SelectSeq(Slice(df.rows, sec.start, sec.end),
                                 LAMBDA r : Label(r) \in EVMaterials)
        done == [k \in 1..Len(secs) |->
                   [tech |-> secs[k].name,
                    rows |-> [i \in 1..Len(picked(secs[k])) |->
                                [src |-> picked(secs[k])[i].id,
                                 label |-> Label(picked(secs[k])[i]),
                                 v |-> [s \in 1..3 |->
                                          ScenarioView(row_data(picked(secs[k])[i].c), ScenarioLong[s])]]]]]
        technologies == SelectSeq(done, LAMBDA t : t.rows # <<>>)
    IN  IF Len(df.cols) < 17 /\ \E k \in 1..Len(secs) : picked(secs[k]) # <<>>
        THEN [error |-> "IndexError", technologies |-> <<>>, sheets |-> <<>>]
        ELSE [error |-> "none", technologies |-> technologies,
              sheets |-> WriteSheets(<<>>, << [name |-> <<"O","v","e","r","v","i","e","w">>, rows |-> <<>>] >>
                                           \o ScenarioWrites(technologies))]

\* analysis_table_4_3.py: process_section_data. Every row of the section whose
\* label is not exactly a section name gives a row of its non-empty cells,
\* keyed by column.
process_section_data(df, start_idx, end_idx) ==
    LET kept == SelectSeq(Slice(df.rows, start_idx, end_idx),
                          LAMBDA r : Label(r) \notin Range(EVSections))
    IN  [k \in 1..Len(kept) |->
           [src |-> kept[k].id, label |-> Label(kept[k]),
            v |-> [j \in {j \in 1..Len(df.cols) : notna(kept[k].c[j])} |-> kept[k].c[j]]]]

\* analysis_table_4_3.py: clean_ev_data, then save_to_excel: one sheet per
\* section that gave rows
EVSectionParser(df0) ==
    LET df == DropEmpty(df0)
        secs == Sections(df.rows, EVSections)
        done == [k \in 1..Len(secs) |->
                   [name |-> clean_sheet_name(secs[k].name),
                    rows |-> process_section_data(df, secs[k].start, secs[k].end)]]
    IN  [error |-> "none", technologies |-> <<>>,
         sheets |-> WriteSheets(<<>>, << [name |-> <<"O","v","e","r","v","i","e","w">>, rows |-> <<>>] >>
                                      \o SelectSeq(done, LAMBDA w : w.rows # <<>>))]

\* analysis_table_3_2.py: scenario_ranges
ScenarioRanges == << <<1, 6>>, <<7, 11>>, <<12, 16>>>>

\* analysis_table_3_2.py: analyze_total_demand. A row whose label is text not
\* starting with "Total" gives, per scenario, a row of its non-empty cells in
\* the scenario's columns, kept only when it has one; reading a row past its
\* last column raises IndexError.
analyze_total_demand(data_rows, years) ==
    LET scenario_years ==
            [s \in 1..3 |->
                LET n == ScenarioRanges[s][2] - ScenarioRanges[s][1] + 1
                    from == Len(years) - n
                IN  IF ScenarioRanges[s][1] > 1
                    THEN Slice(years,
                               IF from >= 0 THEN from
                               ELSE IF Len(years) + from >= 0 THEN Len(years) + from ELSE 0,
                               Len(years))
                    ELSE Slice(years, 0, IF from >= 0 THEN n ELSE Len(years))]
        metals == SelectSeq(data_rows,
                            LAMBDA r : iloc(r.c, 0).t = "str" /\ ~StartsWith(iloc(r.c, 0).v, <<"T","o","t","a","l">>))
        data(r, start, ys) ==
            LET has == {i \in 1..Len(ys) : notna(iloc(r.c, start + i - 1))}
            IN  [src |-> r.id, label |-> iloc(r.c, 0).v,
                 v |-> [y \in {ys[i] : i \in has} |->
                          iloc(r.c, start + (CHOOSE i \in has : ys[i] = y) - 1)]]
    IN  IF \E k \in 1..Len(metals), s \in 1..3 :
              ScenarioRanges[s][1] + Len(scenario_years[s]) - 1 >= Len(metals[k].c)
        THEN [error |-> "IndexError", scenarios |-> <<>>]
        ELSE [error |-> "none",
              scenarios |-> [s \in 1..3 |->
                               SelectSeq([k \in 1..Len(metals) |->
                                            data(metals[k], ScenarioRanges[s][1], scenario_years[s])],
                                         LAMBDA row : DOMAIN row.v # {})]]

\* analysis_table_3_2.py: clean_demand_data, analyze_total_demand, then
\* save_to_excel: a sheet per scenario that has a row
MineralDemandParser(df0) ==
    LET cl == clean_demand_data(df0)
        demand == analyze_total_demand(cl.data_rows, cl.years)
        scenarios == SelectSeq([s \in 1..3 |-> [name |-> clean_sheet_name(ScenarioShort[s]),
                                                rows |-> demand.scenarios[s]]],
                               LAMBDA w : w.rows # <<>>)
    IN  IF cl.error # "none" THEN [error |-> cl.error, technologies |-> <<>>, sheets |-> <<>>]
        ELSE IF demand.error # "none"
        THEN [error |-> demand.error, technologies |-> <<>>, sheets |-> <<>>]
        ELSE IF scenarios = <<>>
        THEN [error |-> "ValueError: No data to save!", technologies |-> <<>>, sheets |-> <<>>]
        ELSE [error |-> "none", technologies |-> <<>>, sheets |-> WriteSheets(<<>>, scenarios)]

-----------------------------------------------------------------------------
(* The wind parser (analysis_table_4.2 .py, kept in
   analysis_table_3_2_visuals.py) *)

\* clean_wind_data, from the row at the head of `rows` on; current_section
\* (<<>> for None) and all_data are the loop's variables
RECURSIVE clean_wind_data(_, _, _)
clean_wind_data(rows, current_section, all_data) ==
    IF rows = <<>> THEN all_data
    ELSE LET first_col == Label(Head(rows))
         IN  IF first_col \in WindSections
             THEN clean_wind_data(Tail(rows), first_col, all_data)
             ELSE IF current_section = <<>> \/ first_col \notin WindMaterials
             THEN clean_wind_data(Tail(rows), current_section, all_data)
             ELSE clean_wind_data(Tail(rows), current_section,
                      Append(all_data, [src |-> Head(rows).id, Section |-> current_section,
                                        label |-> first_col, v |-> row_data(Head(rows).c)]))

\* df['Section'].unique(): the sections of the rows, in order of appearance
RECURSIVE Unique(_)
Unique(s) ==
    IF s = <<>> THEN <<>>
    ELSE LET front == Unique(SubSeq(s, 1, Len(s) - 1))
         IN  IF s[Len(s)] \in Range(front) THEN front ELSE Append(front, s[Len(s)])

\* clean_wind_data, then save_to_excel inside try/except: the sheets Overview
\* and Wind_Data, a sheet per section, and a sheet per scenario with the
\* columns Section, Material, 2023 and those whose name contains the
\* scenario's name. A material row shorter than 17 columns raises IndexError
\* before anything is saved; without rows there is no Section column, and the
\* writer is closed with the first two sheets.
WindParser(df0) ==
    LET df == DropEmpty(df0)
        all_data == clean_wind_data(df.rows, <<>>, <<>>)
        sections == Unique([k \in 1..Len(all_data) |-> all_data[k].Section])
        first == << [name |-> <<"O","v","e","r","v","i","e","w">>, rows |-> <<>>], [name |-> <<"W","i","n","d","_","D","a","t","a">>, rows |-> all_data] >>
        by_section == [k \in 1..Len(sections) |->
                         [name |-> clean_sheet_name(sections[k]),
                          rows |-> SelectSeq(all_data, LAMBDA r : r.Section = sections[k])]]
        by_scenario == [s \in 1..3 |->
                          [name |-> clean_sheet_name(ScenarioLong[s]),
                           rows |-> [k \in 1..Len(all_data) |->
                                       [all_data[k] EXCEPT !.v = ScenarioView(@, ScenarioLong[s])]]]]
    IN  IF Len(df.cols) < 17 /\ all_data # <<>>
        THEN [error |-> "IndexError", technologies |-> <<>>, sheets |-> <<>>]
        ELSE IF all_data = <<>>
        THEN [error |-> "KeyError: 'Section'", technologies |-> <<>>,
              sheets |-> WriteSheets(<<>>, first)]
        ELSE [error |-> "none", technologies |-> all_data,
              sheets |-> WriteSheets(<<>>, first \o by_section \o by_scenario)]

-----------------------------------------------------------------------------
(* Specification: the Table 3.2, 4.1 and 4.3 parsers applied to small sheets
   of seventeen columns: the label, 2023, and the years 2030..2050 of the
   three scenarios *)

YearRow17 ==
    LET years == [i \in 1..5 |-> Num(ScenarioYears[i])]
    IN  <<NaN, Num(Y2023)>> \o years \o years \o years

\* a row with the same value in every column of a scenario
DataRow(label, base, stated, announced, netzero) ==
    <<label, base>> \o [i \in 1..5 |-> stated] \o [i \in 1..5 |-> announced]
                    \o [i \in 1..5 |-> netzero]

BodyRows ==
    { DataRow(Str(<<"C","o","p","p","e","r">>), Num(<<"5">>), Num(<<"1">>), Num(<<"2">>), Num(<<"3">>)),
      DataRow(Str(<<"C","o","p","p","e","r">>), NaN, NaN, NaN, NaN),
      DataRow(Str(<<"T","o","t","a","l"," ","E","V">>), Num(<<"4">>), Num(<<"1">>), Num(<<"1">>), Num(<<"1">>)),
      DataRow(NaN, NaN, NaN, NaN, NaN) }

MaxBodyRows == 2

\* the sheet with the sections `names`, each a title row (the name alone),
\* the year row and the body; without sections, the year row and the body
RECURSIVE SectionRows(_, _)
SectionRows(names, body) ==
    IF names = <<>> THEN <<>>
    ELSE <<DataRow(Str(Head(names)), NaN, NaN, NaN, NaN), YearRow17>> \o body
         \o SectionRows(Tail(names), body)

TableSheet(names, body) ==
    DataFrame(IF names = <<>> THEN <<YearRow17>> \o body ELSE SectionRows(names, body))

\* the sub-sequences of a sequence of section names
SubSeqs(names) == {Pick(names, keep, 1) : keep \in SUBSET (1..Len(names))}

ParseMineralDemand ==
    /\ input.sheet = "3.2 Cleantech demand by mineral"
    /\ Apply("analysis_table_3_2.py", MineralDemandParser(input.df))

ParseSolar ==
    /\ input.sheet = "4.1 Solar PV"
    /\ Apply("analysis_table_4_1.py", SolarParser(input.df))

ParseEVScenarios ==
    /\ input.sheet = "4.3 EV"
    /\ Apply("analysis_table_4.3.py", EVScenarioParser(input.df))

ParseEVSections ==
    /\ input.sheet = "4.3 EV"
    /\ Apply("analysis_table_4_3.py", EVSectionParser(input.df))

ParseWind ==
    /\ input.sheet = "4.2 Wind"
    /\ Apply("analysis_table_4.2 .py", WindParser(input.df))

InitTables ==
    /\ \E body \in UNION {[1..n -> BodyRows] : n \in 0..MaxBodyRows} :
          \/ input = [sheet |-> "3.2 Cleantech demand by mineral", df |-> TableSheet(<<>>, body)]
          \/ \E names \in SubSeqs(SolarTechs) :
                input = [sheet |-> "4.1 Solar PV", df |-> TableSheet(names, body)]
          \/ \E names \in SubSeqs(EVSections) :
                input = [sheet |-> "4.3 EV", df |-> TableSheet(names, body)]
          \/ \E names \in SubSeqs(<< <<"B","a","s","e"," ","c","a","s","e">>, <<"C","o","n","s","t","r","a","i","n","e","d"," ","r","a","r","e"," ","e","a","r","t","h"," ","e","l","e","m","e","n","t","s"," ","s","u","p","p","l","y">> >>) :
                input = [sheet |-> "4.2 Wind", df |-> TableSheet(names, body)]
    /\ call = "none"
    /\ result = <<>>
    /\ ScriptsIdle
    /\ AppIdle

NextTables ==
    ParseMineralDemand \/ ParseSolar \/ ParseEVScenarios \/ ParseEVSections \/ ParseWind

SpecTables == InitTables /\ [][NextTables]_vars

-----------------------------------------------------------------------------
(* Specification: functions of the parsers applied to small arguments *)

\* the characters clean_sheet_name removes, a letter and a blank
NameChars == {"\\", "/", "*", "?", ":", "[", "]", "(", ")", "a", " "}

MaxNameTail == 2

\* the names given to clean_sheet_name: up to MaxNameTail characters, alone or
\* after SheetNameMax - 1 letters
SheetNames ==
    LET tails == UNION {[1..n -> NameChars] : n \in 0..MaxNameTail}
    IN  tails \cup {[i \in 1..(SheetNameMax - 1) |-> "x"] \o t : t \in tails}

ProcessMetalDataRefiningFirst(mining_data, refining_data) ==
    LET refining_only == SelectSeq(mining_data, LAMBDA m : \A i \in 1..Len(refining_data) :
                                                             refining_data[i].Country # m.Country)
    IN  [k \in 1..(Len(refining_data) + Len(refining_only)) |->
           [Country |-> (refining_data \o refining_only)[k].Country, Mining |-> NaN, Refining |-> NaN]]

\* analysis_table_2.py: process_metal_data, for one year. An entry of
\* mining_data or refining_data is a country and its value; the result has a
\* row per country of all_countries, with the values of the first entry of
\* that country in each list (NaN where it has none).
process_metal_data(mining_data, refining_data) ==
    LET mining_countries == [i \in 1..Len(mining_data) |-> mining_data[i].Country]
        refining_countries == [i \in 1..Len(refining_data) |-> refining_data[i].Country]
        additional_countries ==
            SelectSeq(refining_countries, LAMBDA c : c \notin Range(mining_countries))
        all_countries == mining_countries \o additional_countries
        value(data, c) ==
            LET at == {i \in 1..Len(data) : data[i].Country = c}
            IN  IF at = {} THEN NaN ELSE data[CHOOSE i \in at : \A j \in at : i <= j].v
    IN  [k \in 1..Len(all_countries) |->
           [Country |-> all_countries[k],
            Mining |-> value(mining_data, all_countries[k]),
            Refining |-> value(refining_data, all_countries[k])]]

\* pd.to_numeric(value, errors='coerce'): a number, or a text of digits, is a
\* number; anything else is NaN
ToNumeric(c) ==
    IF c.t = "num" \/ (c.t = "str" /\ c.v # <<>> /\ \A i \in 1..Len(c.v) : c.v[i] \in Range(DIGITS))
    THEN Num(c.v) ELSE NaN

\* d[key] = value on a dict kept as the sequence of its items: a new key goes
\* to the end, a known key keeps its place
SetKey(d, key, value) ==
    IF \E i \in 1..Len(d) : d[i].key = key
    THEN [i \in 1..Len(d) |-> IF d[i].key = key THEN [key |-> key, value |-> value] ELSE d[i]]
    ELSE Append(d, [key |-> key, value |-> value])

\* analysis_table_1.py: analyze_mineral_data, from the row at the head of
\* `rows` on; current_mineral (<<>> for None), current_data and minerals are
\* the loop's variables. A row is its Category cell followed by its value
\* cells.
RECURSIVE analyze_mineral_data(_, _, _, _)
analyze_mineral_data(rows, current_mineral, current_data, minerals) ==
    IF rows = <<>>
    THEN IF current_mineral # <<>> /\ current_data # <<>>
         THEN SetKey(minerals, current_mineral, current_data)
         ELSE minerals
    ELSE LET row == Head(rows)
             category == iloc(row.c, 0)
             numeric == \E j \in 2..Len(row.c) : notna(ToNumeric(row.c[j]))
         IN  IF notna(category) /\ ~numeric
             THEN analyze_mineral_data(Tail(rows), category.v, 
                      IF current_mineral # <<>> /\ current_data # <<>> THEN <<>> ELSE current_data,
                      IF current_mineral # <<>> /\ current_data # <<>>
                      THEN SetKey(minerals, current_mineral, current_data)
                      ELSE minerals)
             ELSE IF current_mineral # <<>> /\ numeric
             THEN analyze_mineral_data(Tail(rows), current_mineral, Append(current_data, row), minerals)
             ELSE analyze_mineral_data(Tail(rows), current_mineral, current_data, minerals)

\* the decimal digits of a natural number
RECURSIVE ToDigits(_)
ToDigits(n) ==
    IF n < 10 THEN <<DIGITS[n + 1]>> ELSE ToDigits(n \div 10) \o <<DIGITS[(n % 10) + 1]>>

\* pd.to_numeric(df[column], errors='coerce').sum() for the column at position
\* j of the rows: NaN counts as nothing
RECURSIVE Total(_, _)
Total(rows, j) ==
    IF rows = <<>> THEN 0
    ELSE (IF notna(ToNumeric(Head(rows).c[j])) THEN ToInt(Head(rows).c[j].v) ELSE 0)
         + Total(Tail(rows), j)

\* analysis_table_1.py: save_to_excel, for one scenario whose columns
\* f"{scenario}_2023" and f"{scenario}_2050" are the cells 2 and 3 of a row.
\* The summary sheet has a row per mineral whose 2023 total is not 0, sorted
\* by growth rate, largest first; a growth rate or CAGR cell holds the two
\* totals it is computed from. Then a sheet per mineral with its rows.
DemandSave(mineral_data, scenario) ==
    LET summary_data ==
            [k \in 1..Len(mineral_data) |->
               [mineral |-> mineral_data[k].key,
                total_2023 |-> Total(mineral_data[k].value, 2),
                total_2050 |-> Total(mineral_data[k].value, 3)]]
        summary_df == SelectSeq(summary_data, LAMBDA r : r.total_2023 # 0)
        \* (a.total_2050 - a.total_2023) / a.total_2023 > the same of b
        grows_more(a, b) ==
            (a.total_2050 - a.total_2023) * b.total_2023 > (b.total_2050 - b.total_2023) * a.total_2023
        place(k) ==
            1 + Cardinality({j \in 1..Len(summary_df) :
                                \/ grows_more(summary_df[j], summary_df[k])
                                \/ j < k /\ ~grows_more(summary_df[k], summary_df[j])})
        sorted == [i \in 1..Len(summary_df) |->
                     summary_df[CHOOSE k \in 1..Len(summary_df) : place(k) = i]]
        totals(r) == <<ToDigits(r.total_2023), ToDigits(r.total_2050)>>
        summary ==
            [i \in 1..Len(sorted) |->
               [src |-> 0, label |-> sorted[i].mineral,
                v |-> (<<"T","o","t","a","l","_","2","0","2","3">> :> Num(ToDigits(sorted[i].total_2023)))
                      @@ (<<"T","o","t","a","l","_","2","0","5","0">> :> Num(ToDigits(sorted[i].total_2050)))
                      @@ (<<"G","r","o","w","t","h","_","R","a","t","e","_","%">> :> [t |-> "growth", v |-> totals(sorted[i])])
                      @@ (<<"C","A","G","R","_","%">> :> [t |-> "cagr", v |-> totals(sorted[i])])]]
        mineral_sheets ==
            [k \in 1..Len(mineral_data) |->
               [name |-> clean_sheet_name(mineral_data[k].key),
                rows |-> [i \in 1..Len(mineral_data[k].value) |->
                            [src |-> mineral_data[k].value[i].id,
                             label |-> iloc(mineral_data[k].value[i].c, 0).v,
                             v |-> ((scenario \o <<"_","2","0","2","3">>) :> mineral_data[k].value[i].c[2])
                                   @@ ((scenario \o <<"_","2","0","5","0">>) :> mineral_data[k].value[i].c[3])]]]]
    IN  WriteSheets(<<>>,
            << [name |-> <<"O","v","e","r","v","i","e","w">>, rows |-> <<>>] >>
            \o (IF summary = <<>> THEN <<>>
                ELSE << [name |-> clean_sheet_name(<<"S","u","m","m","a","r","y","_">> \o scenario), rows |-> summary] >>)
            \o mineral_sheets)

\* the rows of the cleaned Table 1 sheet: titles of minerals (a label and no
\* number), rows of values, with or without a label, and a row of text values
MineralRows ==
    { <<Str(<<"C","o","p","p","e","r">>), NaN, NaN>>, <<Str(<<"C","o","b","a","l","t">>), NaN, NaN>>,
      <<Str(<<"S","o","l","a","r"," ","P","V">>), Num(<<"2">>), Num(<<"6">>)>>, <<Str(<<"W","i","n","d">>), Num(<<"4">>), Num(<<"6">>)>>,
      <<NaN, NaN, Num(<<"1">>)>>, <<Str(<<"O","t","h","e","r"," ","u","s","e","s">>), Str(<<"n",".","a",".">>), Str(<<"3">>)>> }

MaxMineralRows == 4

CallAnalyzeMineralData ==
    /\ input.fn = "analyze_mineral_data"
    /\ LET mineral_data == analyze_mineral_data(input.args[1].rows, <<>>, <<>>, <<>>)
       IN  Apply("analyze_mineral_data",
                 [minerals |-> mineral_data, sheets |-> DemandSave(mineral_data, input.args[2])])

-----------------------------------------------------------------------------
(* analysis_table_3_1.py *)

\* analysis_table_3_1.py: metals, which is also metal_order of save_to_excel
Metals ==
    << <<"C","h","r","o","m","i","u","m">>, <<"C","o","p","p","e","r">>, <<"C","o","b","a","l","t">>, <<"B","a","t","t","e","r","y","-","g","r","a","d","e"," ","g","r","a","p","h","i","t","e">>, <<"L","i","t","h","i","u","m">>, <<"M","a","n","g","a","n","e","s","e">>, <<"M","o","l","y","b","d","e","n","u","m">>, <<"N","i","c","k","e","l">>, <<"P","G","M","s">>, <<"S","i","l","i","c","o","n">>, <<"S","i","l","v","e","r">>, <<"Z","i","n","c">>, <<"N","e","o","d","y","m","i","u","m">> >>

\* the metal whose section a Category starts (<<>> for none): the first of
\* metals it contains, unless it starts with "Total"
MetalOf(category) ==
    LET hits == {k \in 1..Len(Metals) : Contains(category, Metals[k])}
    IN  IF hits = {} \/ StartsWith(category, <<"T","o","t","a","l">>) THEN <<>>
        ELSE Metals[CHOOSE k \in hits : \A j \in hits : k <= j]

\* analysis_table_3_1.py: create_scenario_df. `data` is a list of rows, each
\* the cells of its non-empty columns; the frame made of it has the columns of
\* all of them. The result is empty when it would have the Technology column
\* alone.
create_scenario_df(data, years, start_col, end_col) ==
    LET n == end_col - start_col + 1
        from == Len(years) - n
        scenario_years ==
            IF start_col > 1
            THEN Slice(years,
                       IF from >= 0 THEN from
                       ELSE IF Len(years) + from >= 0 THEN Len(years) + from ELSE 0,
                       Len(years))
            ELSE Slice(years, 0, IF from >= 0 THEN n ELSE Len(years))
        columns == UNION {DOMAIN data[k].cols : k \in 1..Len(data)}
        has == {i \in 1..Len(scenario_years) : (start_col + i - 1) \in columns}
        col == [y \in {scenario_years[i] : i \in has} |->
                  start_col + (CHOOSE i \in has : scenario_years[i] = y) - 1]
    IN  IF has = {} THEN <<>>
        ELSE [k \in 1..Len(data) |->
                [src |-> data[k].src, label |-> data[k].label,
                 v |-> [y \in DOMAIN col |->
                          IF col[y] \in DOMAIN data[k].cols THEN data[k].cols[col[y]] ELSE NaN]]]

\* lines 101-105 and 128-132: scenarios[current_metal][scenario] = scenario_df
\* for every scenario whose frame is not empty
StoreScenarios(scenarios, current_metal, scenario_data, years) ==
    LET known == {i \in 1..Len(scenarios) : scenarios[i].key = current_metal}
        old == IF known = {} THEN <<>> ELSE scenarios[CHOOSE i \in known : TRUE].value
        dfs == [s \in 1..3 |-> create_scenario_df(scenario_data, years,
                                                  ScenarioRanges[s][1], ScenarioRanges[s][2])]
    IN  SetKey(scenarios, current_metal,
               [s \in DOMAIN old \cup {s \in 1..3 : dfs[s] # <<>>} |->
                   IF dfs[s] # <<>> THEN dfs[s] ELSE old[s]])

\* analysis_table_3_1.py: analyze_demand_scenarios, from the row at the head
\* of `rows` on; current_metal (<<>> for None), scenario_data and scenarios are
\* the loop's variables
RECURSIVE analyze_demand_scenarios(_, _, _, _, _)
analyze_demand_scenarios(rows, years, current_metal, scenario_data, scenarios) ==
    IF rows = <<>>
    THEN IF current_metal # <<>> /\ scenario_data # <<>>
         THEN StoreScenarios(scenarios, current_metal, scenario_data, years)
         ELSE scenarios
    ELSE LET row == Head(rows)
             category == iloc(row.c, 0)
             metal == IF category.t = "str" THEN MetalOf(category.v) ELSE <<>>
             cols == {j \in 1..(Len(row.c) - 1) : notna(iloc(row.c, j))}
         IN  IF category.t # "str"
             THEN analyze_demand_scenarios(Tail(rows), years, current_metal, scenario_data, scenarios)
             ELSE IF metal # <<>>
             THEN analyze_demand_scenarios(Tail(rows), years, metal, <<>>,
                      IF scenario_data # <<>>
                      THEN StoreScenarios(scenarios, metal, scenario_data, years)
                      ELSE scenarios)
             ELSE IF /\ category.v # current_metal
                     /\ ~\E x \in {<<"T","o","t","a","l">>, <<"N","o","t","e","s",":">>, <<"B","a","s","e"," ","c","a","s","e">>} : Contains(category.v, x)
                     /\ cols # {}
             THEN analyze_demand_scenarios(Tail(rows), years, current_metal,
                      Append(scenario_data,
                             [src |-> row.id, label |-> category.v,
                              cols |-> [j \in cols |-> iloc(row.c, j)]]),
                      scenarios)
             ELSE analyze_demand_scenarios(Tail(rows), years, current_metal, scenario_data, scenarios)

\* the to_excel calls of save_to_excel of analysis_table_3_1.py: for every
\* metal of metal_order that is a key, a sheet per scenario stored under it
RECURSIVE TechDemandWrites(_, _)
TechDemandWrites(scenarios, k) ==
    IF k > Len(Metals) THEN <<>>
    ELSE LET known == {i \in 1..Len(scenarios) : scenarios[i].key = Metals[k]}
             dfs == IF known = {} THEN <<>> ELSE scenarios[CHOOSE i \in known : TRUE].value
         IN  SelectSeq([s \in 1..3 |->
                          [name |-> clean_sheet_name(Metals[k] \o <<"_">> \o ScenarioShort[s]),
                           rows |-> IF s \in DOMAIN dfs THEN dfs[s] ELSE <<>>]],
                       LAMBDA w : w.rows # <<>>)
             \o TechDemandWrites(scenarios, k + 1)

\* analysis_table_3_1.py: clean_demand_scenario_data, analyze_demand_scenarios,
\* then save_to_excel inside try/except. An error of the first two ends the
\* script; save_to_excel raises before opening the writer when there is
\* nothing to save.
TechDemandParser(df0) ==
    LET cl == clean_demand_scenario_data(df0)
        scenarios == analyze_demand_scenarios(cl.data_rows, cl.years, <<>>, <<>>, <<>>)
    IN  IF cl.error # "none" THEN [error |-> cl.error, technologies |-> <<>>, sheets |-> <<>>]
        ELSE IF scenarios = <<>>
        THEN [error |-> "ValueError: No data to save!", technologies |-> <<>>, sheets |-> <<>>]
        ELSE [error |-> "none", technologies |-> scenarios,
              sheets |-> WriteSheets(<<>>, TechDemandWrites(scenarios, 1))]

-----------------------------------------------------------------------------
(* analysis_table_2.py: the whole script, for the columns of the year 2023 *)

\* category.split(" - ")[0].strip()
BeforeDash(category) ==
    LET at == {i \in 1..(Len(category) - 2) : SubSeq(category, i, i + 2) = <<" ","-"," ">>}
    IN  IF at = {} THEN Strip(category)
        ELSE Strip(SubSeq(category, 1, (CHOOSE i \in at : \A j \in at : i <= j) - 1))

\* analysis_table_2.py: analyze_mineral_supply, from the row at the head of
\* `rows` on; `cols` is year_columns[2023]; current_metal (<<>> for None),
\* mining_data, refining_data and metals are the loop's variables. (The
\* variables in_refining_section, mining_countries and refining_countries
\* are only printed.)
RECURSIVE analyze_mineral_supply(_, _, _, _, _, _)
analyze_mineral_supply(rows, cols, current_metal, mining_data, refining_data, metals) ==
    LET saved == IF current_metal # <<>> /\ (mining_data # <<>> \/ refining_data # <<>>)
                 THEN SetKey(metals, current_metal, process_metal_data(mining_data, refining_data))
                 ELSE metals
    IN  IF rows = <<>> THEN saved
        ELSE LET row == Head(rows)
                 category == iloc(row.c, 0)
                 mining_val == IF Len(cols) >= 2 THEN iloc(row.c, cols[1]) ELSE NaN
                 refining_val == IF Len(cols) >= 2 THEN iloc(row.c, cols[2]) ELSE NaN
             IN  IF category.t # "str"
                 THEN analyze_mineral_supply(Tail(rows), cols, current_metal, mining_data, refining_data, metals)
                 ELSE IF Contains(category.v, <<" ","-"," ","M","i","n","i","n","g">>)
                 THEN analyze_mineral_supply(Tail(rows), cols, BeforeDash(category.v), <<>>, <<>>, saved)
                 ELSE IF Contains(category.v, <<" ","-"," ","R","e","f","i","n","i","n","g">>)
                 THEN analyze_mineral_supply(Tail(rows), cols, current_metal, mining_data, refining_data, metals)
                 ELSE IF /\ category.v # current_metal
                         /\ ~\E x \in {<<"-"," ","M","i","n","i","n","g">>, <<"-"," ","R","e","f","i","n","i","n","g">>, <<"N","o","t","e","s",":">>, <<"B","a","s","e"," ","c","a","s","e">>} :
                               Contains(category.v, x)
                 THEN analyze_mineral_supply(Tail(rows), cols, current_metal,
                          IF notna(mining_val)
                          THEN Append(mining_data, [Country |-> category.v, v |-> mining_val])
                          ELSE mining_data,
                          IF notna(refining_val)
                          THEN Append(refining_data, [Country |-> category.v, v |-> refining_val])
                          ELSE refining_data,
                          metals)
                 ELSE analyze_mineral_supply(Tail(rows), cols, current_metal, mining_data, refining_data, metals)

\* the to_excel calls of one ExcelWriter of save_to_excel of
\* analysis_table_2.py: for every metal, the rows of its table that have a
\* value of the activity, when there is one
SupplyWrites(metal_data, activity) ==
    SelectSeq([k \in 1..Len(metal_data) |->
                 [name |-> clean_sheet_name(metal_data[k].key),
                  rows |-> LET kept == SelectSeq(metal_data[k].value,
                                                 LAMBDA r : notna(IF activity = "Mining" THEN r.Mining
                                                                  ELSE r.Refining))
                           IN  [i \in 1..Len(kept) |->
                                  [src |-> 0, label |-> kept[i].Country,
                                   v |-> IF activity = "Mining" THEN kept[i].Mining
                                         ELSE kept[i].Refining]]]],
              LAMBDA w : w.rows # <<>>)

\* analysis_table_2.py: clean_mineral_supply_data, analyze_mineral_supply,
\* then save_to_excel inside try/except. An error of the first two ends the
\* script. save_to_excel raises before opening a writer when there is nothing
\* to save; a writer closed without a sheet raises, after its file was
\* opened, and the writers after it are not opened. `created` is the set of
\* files opened for writing.
SupplyParser(df0) ==
    LET cl == clean_mineral_supply_data(df0)
        cols == SelectSeq([j \in 1..Len(cl.year_row_data) |-> j - 1],
                          LAMBDA j : iloc(cl.year_row_data, j) = Num(Y2023))
        metal_data == analyze_mineral_supply(cl.data_rows, cols, <<>>, <<>>, <<>>, <<>>)
        mining == SupplyWrites(metal_data, "Mining")
        refining == SupplyWrites(metal_data, "Refining")
        nothing == [error |-> "none", technologies |-> metal_data, created |-> {},
                    sheets |-> <<>>, refining |-> <<>>]
    IN  IF cl.error # "none" THEN [nothing EXCEPT !.error = cl.error]
        ELSE IF metal_data = <<>> THEN [nothing EXCEPT !.error = "ValueError: No data to save!"]
        ELSE IF mining = <<>>
        THEN [nothing EXCEPT !.error = "IndexError: At least one sheet must be visible",
                             !.created = {MiningWorkbook}]
        ELSE IF refining = <<>>
        THEN [nothing EXCEPT !.error = "IndexError: At least one sheet must be visible",
                             !.created = {MiningWorkbook, RefiningWorkbook},
                             !.sheets = WriteSheets(<<>>, mining)]
        ELSE [nothing EXCEPT !.created = {MiningWorkbook, RefiningWorkbook},
                             !.sheets = WriteSheets(<<>>, mining),
                             !.refining = WriteSheets(<<>>, refining)]

\* the country rows given to process_metal_data
Countries == { <<"C","h","i","l","e">>, <<"P","e","r","u">>, <<"C","h","i","n","a">> }

MaxCountryRows == 2

\* lists of up to MaxCountryRows entries; an entry's value is its position
CountryData ==
    UNION {[1..n -> Countries] : n \in 0..MaxCountryRows}

CallProcessMetalData ==
    /\ input.fn = "process_metal_data"
    /\ Apply("process_metal_data", process_metal_data(input.args[1], input.args[2]))

CallCleanSheetName ==
    /\ input.fn = "clean_sheet_name"
    /\ Apply("clean_sheet_name", clean_sheet_name(input.args[1]))

\* rows of a sheet of Table 2 with the columns Category, 2023 (mining) and
\* 2023 (refining)
SupplyRows ==
    { <<Str(<<"C","o","p","p","e","r"," ","-"," ","M","i","n","i","n","g">>), NaN, NaN>>,
      <<Str(<<"C","o","p","p","e","r"," ","-"," ","R","e","f","i","n","i","n","g">>), NaN, NaN>>,
      <<Str(<<"C","o","b","a","l","t"," ","-"," ","M","i","n","i","n","g">>), NaN, NaN>>,
      <<Str(<<"C","h","i","l","e">>), Num(<<"5">>), Num(<<"7">>)>>,
      <<Str(<<"P","e","r","u">>), NaN, Num(<<"3">>)>> }

MaxSupplyRows == 3

\* rows of a sheet of Table 3.1 or 3.2 with the seventeen columns of YearRow17
TechRows ==
    { DataRow(Str(<<"C","o","p","p","e","r">>), NaN, NaN, NaN, NaN),
      DataRow(Str(<<"C","o","b","a","l","t">>), NaN, NaN, NaN, NaN),
      DataRow(Str(<<"S","o","l","a","r"," ","P","V">>), Num(<<"5">>), Num(<<"1">>), Num(<<"2">>), Num(<<"3">>)),
      DataRow(Str(<<"W","i","n","d">>), Num(<<"4">>), Num(<<"6">>), Num(<<"6">>), Num(<<"6">>)),
      DataRow(Str(<<"T","o","t","a","l"," ","C","o","p","p","e","r">>), Num(<<"9">>), Num(<<"7">>), Num(<<"8">>), Num(<<"9">>)) }

MaxTechRows == 3

\* analysis_table_2.py, run on the sheet
RunSupplyParser ==
    /\ input.fn = "analysis_table_2.py"
    /\ Apply("analysis_table_2.py", SupplyParser(input.args[1]))

\* analysis_table_3_1.py, run on the sheet
RunTechDemandParser ==
    /\ input.fn = "analysis_table_3_1.py"
    /\ Apply("analysis_table_3_1.py", TechDemandParser(input.args[1]))

\* analysis_table_3_2.py, run on the sheet
RunMineralDemandParser ==
    /\ input.fn = "analysis_table_3_2.py"
    /\ Apply("analysis_table_3_2.py", MineralDemandParser(input.args[1]))

-----------------------------------------------------------------------------
(* The growth ranking of the Table 3.2 page (streamlit_app.py) and of
   create_top_metals_analysis (analysis_table_3_2_visuals.py). A sheet of the
   workbook is its column names and its rows of cells, the Metal first; values
   are whole numbers. A growth rate g is kept as the quotient q = n/d with
   g = (q - 1) * 100, or is inf or NaN. *)

\* str(col).replace('.0', '')
RECURSIVE RemoveDotZero(_)
RemoveDotZero(s) ==
    IF Len(s) < 2 THEN s
    ELSE IF SubSeq(s, 1, 2) = <<".","0">> THEN RemoveDotZero(SubSeq(s, 3, Len(s)))
    ELSE <<Head(s)>> \o RemoveDotZero(Tail(s))

\* the position of the column called name (0 when there is none)
ColumnAt(columns, name) ==
    IF name \in Range(columns) THEN CHOOSE j \in 1..Len(columns) : columns[j] = name ELSE 0

\* ((end / start) - 1) * 100 of pandas: x/0 is inf, 0/0 is NaN
SeriesGrowth(start_value, end_value) ==
    IF start_value = 0
    THEN [k |-> IF end_value = 0 THEN "nan" ELSE "inf", n |-> 0, d |-> 1]
    ELSE [k |-> "num", n |-> end_value, d |-> start_value]

\* analysis_table_3_2_visuals.py: calculate_growth_rate. A zero start value
\* with a zero end value gives 0; with another end value 0.001 is used as the
\* start value.
calculate_growth_rate(start_value, end_value) ==
    IF start_value = 0
    THEN IF end_value = 0 THEN [k |-> "num", n |-> 1, d |-> 1]
         ELSE [k |-> "num", n |-> end_value * 1000, d |-> 1]
    ELSE [k |-> "num", n |-> end_value, d |-> start_value]

\* sort_values('Growth', ascending=False) of a frame of fewer than seventeen
\* rows: the positions of the rows by falling growth, equal rates in their
\* order in the frame, NaN last
sort_values(growth) ==
    LET before(i, j) ==
            \/ growth[i].k # "nan" /\ growth[j].k = "nan"
            \/ growth[i].k = "inf" /\ growth[j].k = "num"
            \/ growth[i].k = "num" /\ growth[j].k = "num"
               /\ growth[i].n * growth[j].d > growth[j].n * growth[i].d
            \/ i < j /\ \/ growth[i].k = growth[j].k /\ growth[i].k # "num"
                        \/ growth[i].k = "num" /\ growth[j].k = "num"
                           /\ growth[i].n * growth[j].d = growth[j].n * growth[i].d
    IN  [r \in 1..Len(growth) |->
            CHOOSE i \in 1..Len(growth) :
                Cardinality({j \in 1..Len(growth) : before(j, i)}) = r - 1]

\* streamlit_app.py, lines 371-391: the metals written under 'Top Growing
\* Metals' for the sheet df; a missing column raises KeyError, which is caught
TopGrowingMetals(df) ==
    LET has_2023 == <<"2","0","2","3">> \in Range(df.columns)
        base_year == IF has_2023 THEN <<"2","0","2","3">> ELSE <<"2","0","3","0">>
        columns == IF has_2023 THEN df.columns
                   ELSE [j \in 1..Len(df.columns) |-> RemoveDotZero(df.columns[j])]
        base == ColumnAt(columns, base_year)
        end == ColumnAt(columns, <<"2","0","5","0">>)
        metal == ColumnAt(columns, <<"M","e","t","a","l">>)
        growth_rates == [i \in 1..Len(df.rows) |-> SeriesGrowth(df.rows[i][base], df.rows[i][end])]
        df_sorted == sort_values(growth_rates)
    IN  IF base = 0 \/ end = 0 \/ metal = 0 THEN [error |-> "KeyError", top |-> <<>>]
        ELSE [error |-> "none",
              top |-> [r \in 1..(IF Len(df.rows) < 3 THEN Len(df.rows) ELSE 3) |->
                         df.rows[df_sorted[r]][metal]]]

\* analysis_table_3_2_visuals.py: load_data, which cleans the column names,
\* then create_top_metals_analysis: the metals of top_5
create_top_metals_analysis(df) ==
    LET columns == [j \in 1..Len(df.columns) |-> RemoveDotZero(df.columns[j])]
        base_year == IF <<"2","0","2","3">> \in Range(columns) THEN <<"2","0","2","3">> ELSE <<"2","0","3","0">>
        base == ColumnAt(columns, base_year)
        end == ColumnAt(columns, <<"2","0","5","0">>)
        metal == ColumnAt(columns, <<"M","e","t","a","l">>)
        growth == [i \in 1..Len(df.rows) |->
                     calculate_growth_rate(df.rows[i][base], df.rows[i][end])]
        df_sorted == sort_values(growth)
    IN  IF base = 0 \/ end = 0 \/ metal = 0 THEN [error |-> "KeyError", top |-> <<>>]
        ELSE [error |-> "none",
              top |-> [r \in 1..(IF Len(df.rows) < 5 THEN Len(df.rows) ELSE 5) |->
                         df.rows[df_sorted[r]][metal]]]

\* the values of a metal in 2023, 2030 and 2050
MetalValues ==
    { <<1, 4, 4>>, <<2, 1, 4>>, <<4, 4, 2>>, <<0, 0, 0>>, <<0, 0, 1>> }

MaxMetalRows == 4

\* the sheets of a scenario: with or without the 2023 column, the year
\* columns named after whole numbers ('2030') or after floats ('2030.0')
ScenarioSheets ==
    LET names == << <<"C","o","p","p","e","r">>, <<"C","o","b","a","l","t">>, <<"L","i","t","h","i","u","m">>, <<"N","i","c","k","e","l">>, <<"Z","i","n","c">>, <<"S","i","l","v","e","r">> >>
    IN  { [columns |-> << <<"M","e","t","a","l">> >> \o SubSeq([j \in 1..3 |-> << <<"2","0","2","3">>, <<"2","0","3","0">>, <<"2","0","5","0">> >>[j] \o tail],
                                                 from, 3),
           rows |-> [i \in 1..Len(vs) |-> << names[i] >> \o SubSeq(vs[i], from, 3)]] :
          vs \in UNION {[1..n -> MetalValues] : n \in 1..MaxMetalRows},
          tail \in {<<>>, <<".","0">>}, from \in {1, 2} }

\* the Table 3.2 page is rendered for the sheet
RenderTopGrowingMetals ==
    /\ input.fn = "Table 3.2 page"
    /\ Apply("Table 3.2 page", TopGrowingMetals(input.args[1]))

\* analysis_table_3_2_visuals.py plots the sheet
PlotTopGrowingMetals ==
    /\ input.fn = "create_top_metals_analysis"
    /\ Apply("create_top_metals_analysis", create_top_metals_analysis(input.args[1]))

InitCalls ==
    /\ \/ \E name \in SheetNames : input = [fn |-> "clean_sheet_name", args |-> <<name>>]
       \/ \E n \in 0..MaxMineralRows : \E rows \in [1..n -> MineralRows] :
             input = [fn |-> "analyze_mineral_data",
                      args |-> <<DataFrame(rows), ScenarioLong[1]>>]
       \/ \E m \in CountryData, r \in CountryData :
             input = [fn |-> "process_metal_data",
                      args |-> << [i \in 1..Len(m) |-> [Country |-> m[i], v |-> Num(<<DIGITS[i + 1]>>)]],
                                  [i \in 1..Len(r) |-> [Country |-> r[i], v |-> Num(<<DIGITS[i + 6]>>)]] >>]
       \/ \E n \in 0..MaxSupplyRows : \E rows \in [1..n -> SupplyRows], head \in {<<>>, << <<NaN, Num(Y2023), Num(Y2023)>> >>} :
             input = [fn |-> "analysis_table_2.py", args |-> <<DataFrame(head \o rows)>>]
       \/ \E n \in 0..MaxTechRows : \E rows \in [1..n -> TechRows], head \in {<<>>, <<YearRow17>>},
                                      fn \in {"analysis_table_3_1.py", "analysis_table_3_2.py"} :
             input = [fn |-> fn, args |-> <<DataFrame(head \o rows)>>]
       \/ \E df \in ScenarioSheets, fn \in {"Table 3.2 page", "create_top_metals_analysis"} :
             input = [fn |-> fn, args |-> <<df>>]
    /\ call = "none"
    /\ result = <<>>
    /\ ScriptsIdle
    /\ AppIdle

NextCalls ==
    \/ CallCleanSheetName
    \/ CallProcessMetalData
    \/ CallAnalyzeMineralData
    \/ RunSupplyParser
    \/ RunTechDemandParser
    \/ RunMineralDemandParser
    \/ RenderTopGrowingMetals
    \/ PlotTopGrowingMetals

SpecCalls == InitCalls /\ [][NextCalls]_vars

-----------------------------------------------------------------------------
(* Claims about the login gate *)

Ran == event # "none"

LoggedIn == "logged_in" \in DOMAIN session /\ session["logged_in"]

PageContent == {w \in rendered : w \notin LoginForm}

\* C1: the sidebar navigation and page content are rendered only when the
\* session's logged_in flag is True when check_password is evaluated; when it
\* is False only the login form is rendered and check_password returns False.
C1_GateControlsContent ==
    Ran =>
        /\ "logged_in" \in DOMAIN session
        /\ (PageContent # {} => session["logged_in"] = TRUE /\ gate = TRUE)
        /\ (session["logged_in"] = FALSE => rendered = LoginForm /\ gate = FALSE)

C1_Witness_FormOnly == Ran /\ ~LoggedIn /\ rendered = LoginForm /\ event = "click"

C1_Witness == LoggedIn /\ "page:Table 4.2: Wind" \in rendered

\* C2: logged_in changes from False to True only in a Log In click whose
\* stripped username is 'mineral_analysis' and whose stripped password is
\* 'z1x2c3v4b5'; a click with any other pair leaves logged_in False.
C2_OnlyValidClickLogsIn ==
    [][ /\ (~LoggedIn /\ LoggedIn') =>
            /\ event' = "click"
            /\ Strip(session["username"]) = USERNAME
            /\ Strip(session["password"]) = PASSWORD
        /\ (/\ event' = "click"
            /\ ~(Strip(session["username"]) = USERNAME /\ Strip(session["password"]) = PASSWORD))
           => ~LoggedIn' ]_vars

\* a padded, correct pair was clicked and let the user in
C2_Witness == LoggedIn /\ event = "click"

C2_Witness_Rejected ==
    /\ event = "click" /\ ~LoggedIn
    /\ Strip(session["username"]) = USERNAME
    /\ session["password"] = <<"Z","1","X","2","C","3","V","4","B","5">>

\* C3: in the step in which a Log In click sets logged_in to True the
\* 'password' and 'username' entries are deleted, so whenever logged_in is
\* True the session state holds neither entry.
C3_PasswordNotStored ==
    LoggedIn => "password" \notin DOMAIN session /\ "username" \notin DOMAIN session

C3_Witness == LoggedIn /\ event = "click" /\ DOMAIN session = {"logged_in"}

-----------------------------------------------------------------------------
(* Claims about the scripts (SpecScripts) *)

\* the parser whose output a plotting script is meant to read; the wind parser
\* is the second program of analysis_table_3_2_visuals.py
ParserOf(script) ==
    CASE script = "analysis_table_1_visuals.py" -> "analysis_table_1.py"
      [] script = "analysis_table_2_visuals.py" -> "analysis_table_2.py"
      [] script = "analysis_table_3_2_visuals.py" -> "analysis_table_3_2.py"
      [] script = "analysis_table_4_1_visuals.py" -> "analysis_table_4_1.py"
      [] script = "analysis_Table_4_2_visuals.py" -> "analysis_table_3_2_visuals.py"
      [] OTHER -> "none"

\* the last run was a plotting script, started after its parser had completed
\* in the same directory
PlotAfterParser ==
    /\ ParserOf(lastRun.script) # "none"
    /\ ParserOf(lastRun.script) \in lastRun.before

\* C4: for Tables 1, 2, 3.2, 4.1 and 4.2 the plotting script opens the workbook
\* and the sheets its parser writes, so a plotting script run after its parser
\* never ends in a file-not-found or a sheet-not-found error.
C4_PlotReadsParserOutput ==
    PlotAfterParser =>
        /\ lastRun.outcome # "FileNotFoundError"
        /\ lastRun.outcome # "sheet not found"

\* the one table whose names do agree: the wind plots after the wind parser
C4_Witness_Wind ==
    /\ PlotAfterParser
    /\ lastRun.script = "analysis_Table_4_2_visuals.py"
    /\ lastRun.outcome = "ok"

\* the parts of the last run's script, by position, that read a workbook absent
\* when the run started
MissingParts ==
    LET parts == PartsOf(lastRun.script)
    IN  {i \in 1..Len(parts) : ~(InputsOf(parts[i]) \subseteq lastRun.had)}

FirstMissing == CHOOSE i \in MissingParts : \A j \in MissingParts : i <= j

\* C8 as stated: in every script a missing input file raises an error that the
\* script catches only to print a message before re-raising or aborting, and
\* the run produces no output file.
C8_MissingInputCaught ==
    (lastRun.script # "none" /\ MissingParts # {}) =>
        /\ lastRun.outcome = "FileNotFoundError"
        /\ lastRun.caught
        /\ lastRun.wrote = {}

\* C8, amended: a missing input file ends the run with FileNotFoundError at the
\* first part that reads a missing workbook; that part writes no file and the
\* script does not complete; the error is caught (message, re-raise) exactly in
\* the plotting scripts of Tables 1, 2 and 4.1 and propagates uncaught in all
\* other scripts; files written by an earlier part of the same script stay.
C8_MissingInputAborts ==
    (lastRun.script # "none" /\ MissingParts # {}) =>
        LET parts == PartsOf(lastRun.script)
        IN  /\ lastRun.outcome = "FileNotFoundError"
            /\ lastRun.part = parts[FirstMissing]
            /\ lastRun.missing \in InputsOf(lastRun.part) \ lastRun.had
            /\ lastRun.caught = (lastRun.part \in CatchingParts)
            /\ lastRun.last = {}
            /\ DOMAIN fs = lastRun.had \cup lastRun.wrote
            /\ (FirstMissing = 1 => lastRun.wrote = {} /\ DOMAIN fs = lastRun.had)
            /\ (lastRun.script \in completed => lastRun.script \in lastRun.before)

\* the error caught, reported and re-raised: the Table 1 plots, right after the
\* Table 1 parser completed
C8_Witness ==
    /\ lastRun.script = "analysis_table_1_visuals.py"
    /\ "analysis_table_1.py" \in lastRun.before
    /\ lastRun.outcome = "FileNotFoundError"
    /\ lastRun.caught
    /\ lastRun.wrote = {}

\* the error not caught: a parser without its source workbook
C8_Witness_Uncaught ==
    /\ lastRun.script = "analysis_table_1.py"
    /\ lastRun.outcome = "FileNotFoundError"
    /\ ~lastRun.caught

\* charts written, then the second program of the file fails on its read
C8_Witness_ChartsThenAbort ==
    /\ lastRun.script = "analysis_table_3_2_visuals.py"
    /\ lastRun.outcome = "FileNotFoundError"
    /\ lastRun.part = "wind"
    /\ lastRun.wrote = MineralDemandCharts

-----------------------------------------------------------------------------
(* Claims about the dashboard's chart files (SpecApp) *)

\* the plotting script of a page
PlotScriptOf(p) ==
    CASE p = "Table 1: Total Demand for Key Minerals" -> "analysis_table_1_visuals.py"
      [] p = "Table 2: Total Supply for Key Minerals" -> "analysis_table_2_visuals.py"
      [] p = "Table 3.2: Cleantech Demand by Mineral" -> "analysis_table_3_2_visuals.py"
      [] p = "Table 4.1: Solar PV" -> "analysis_table_4_1_visuals.py"
      [] p = "Table 4.2: Wind" -> "analysis_Table_4_2_visuals.py"
      [] p = "Table 4.4: Grid Battery Storage" -> "analysis_table_4_4_visuals.py"
      [] p = "Table 4.5: Electricity Networks" -> "analysis_table_4_5_visuals.py"
      [] p = "Table 4.6: Hydrogen Technologies" -> "analysis_table_4_6_visuals.py"
      [] OTHER -> "none"

\* the page shown is one whose plotting script has completed in the directory
PageOfCompletedPlot ==
    /\ LoggedIn
    /\ "page:" \o page \in rendered
    /\ PlotScriptOf(page) \in completed

\* C5: every chart path the dashboard opens is a path the plotting script of
\* the page writes, so once that script has completed the page reports no
\* chart as not found, whatever the selection.
C5_DashboardOpensWrittenCharts ==
    PageOfCompletedPlot =>
        /\ opened \subseteq DOMAIN fs
        /\ notFound = {}

\* the charts exist under figure_4_5/, the page looks for figure_4_5_figure_4_5_...
C5_Witness_DoublePrefix ==
    /\ PageOfCompletedPlot
    /\ page = "Table 4.5: Electricity Networks"
    /\ selected = <<"B","a","s","e"," ","c","a","s","e">>
    /\ <<"f","i","g","u","r","e","_","4","_","5","/","b","a","s","e","_","c","a","s","e","_","t","r","e","n","d","s",".","h","t","m","l">> \in DOMAIN fs
    /\ notFound = { <<"f","i","g","u","r","e","_","4","_","5","_","f","i","g","u","r","e","_","4","_","5","_","b","a","s","e","_","c","a","s","e","_","t","r","e","n","d","s",".","h","t","m","l">> }

-----------------------------------------------------------------------------
(* Claims about the year row (SpecYearRow) *)

YearRowFound ==
    /\ call \in {"clean_mineral_supply_data", "clean_demand_scenario_data", "clean_demand_data"}
    /\ result.error = "none"

\* the rows of the sheet, by position, that hold the number 2023
RowsWith2023 == {i \in 1..Len(input.df.rows) : Has2023(input.df.rows[i])}

\* the rows of the sheet, by position, that are not entirely empty
NonEmptyRows ==
    {i \in 1..Len(input.df.rows) :
        \E j \in 1..Len(input.df.rows[i].c) : notna(input.df.rows[i].c[j])}

\* C10: in the Table 2, 3.1 and 3.2 parsers the year row is the topmost row
\* holding the value 2023 once empty rows and columns are removed, and the data
\* rows are exactly the non-empty rows strictly below it, in sheet order.
C10_YearRowIsFirst2023 ==
    YearRowFound =>
        /\ result.year_row_id \in RowsWith2023
        /\ \A i \in RowsWith2023 : result.year_row_id <= i
        /\ result.year_row = Cardinality({i \in NonEmptyRows : i < result.year_row_id})
        /\ {result.data_rows[k].id : k \in 1..Len(result.data_rows)}
             = {i \in NonEmptyRows : i > result.year_row_id}
        /\ \A k \in 1..(Len(result.data_rows) - 1) :
             result.data_rows[k].id < result.data_rows[k + 1].id

\* an empty row on top, two rows with 2023, a data row below the first of them
C10_Witness ==
    /\ YearRowFound
    /\ Cardinality(RowsWith2023) = 2
    /\ 1 \notin NonEmptyRows
    /\ result.year_row_id = 2
    /\ result.year_row = 0
    /\ Len(result.data_rows) = 1

-----------------------------------------------------------------------------
(* Claims about the section parsers *)

\* a parser ran to its end and wrote its workbook
Parsed(script) == call = script /\ result.error = "none"

\* the cells of the sheet row an output row was made from
SourceCells(r) == input.df.rows[r.src].c

\* C6: for every material row, every scenario s and every year y in
\* 2030..2050, the value the solar PV parser stores under '{s}_{y}' is the cell
\* of that row in the year-y column of scenario s's column block.
C6_StoredValueFromScenarioBlock ==
    Parsed("analysis_table_4_1.py") =>
        \A k \in 1..Len(result.technologies) :
            \A i \in 1..Len(result.technologies[k].rows), s \in 1..3, y \in 1..5 :
                LET r == result.technologies[k].rows[i]
                IN  r.v[s][ScenarioYears[y]] = iloc(SourceCells(r), ScenarioRanges[s][2] - 5 + y)

\* the (technology, scenario) pairs save_to_excel writes a sheet for
WrittenPairs ==
    {<<result.technologies[k].tech, s>> :
        k \in {j \in 1..Len(result.technologies) : result.technologies[j].rows # <<>>},
        s \in 1..3}

\* C7: the workbook of the solar PV (4.1) and EV (4.3) parsers holds, for every
\* non-empty technology and each of the three scenarios, a sheet of its own
\* that holds the rows of that pair and of no other.
C7_SheetPerTechnologyScenario ==
    Parsed("analysis_table_4_1.py") \/ Parsed("analysis_table_4.3.py") =>
        \A p \in WrittenPairs :
            LET name == clean_sheet_name(p[1] \o <<"_">> \o ScenarioLong[p[2]])
            IN  /\ name \in DOMAIN result.sheets
                /\ \A q \in WrittenPairs :
                      q # p => clean_sheet_name(q[1] \o <<"_">> \o ScenarioLong[q[2]]) # name
                /\ \A i \in 1..Len(result.sheets[name]) :
                      /\ result.sheets[name][i].tech = p[1]
                      /\ result.sheets[name][i].scenario = p[2]

\* a row that is entirely empty, or has a label and no value in another column
Malformed(c) == \A j \in 2..Len(c) : ~notna(c[j])

\* C9: in every parser, an input row that is entirely empty, or that has a
\* label but no data value in any other column, contributes no row to any
\* output table.
C9_MalformedRowsSkipped ==
    call # "none" /\ result.error = "none" =>
        \A name \in DOMAIN result.sheets :
            \A i \in 1..Len(result.sheets[name]) : ~Malformed(SourceCells(result.sheets[name][i]))

-----------------------------------------------------------------------------
(* Claims about what the parser scripts write (SpecScripts) *)

C13_NoSharedOutputPath ==
    /\ lastRun.script \in ParserScripts /\ lastRun.outcome = "ok"
         /\ lastRun.script \notin lastRun.before
         => lastRun.wrote \cap lastRun.had = {}
    /\ \A s1, s2 \in ParserScripts :
          LET a == RunOf(s1, fs, dirs)
              b == RunOf(s2, fs, dirs)
          IN  a.outcome = "ok" /\ b.outcome = "ok" =>
                 RunOf(s2, a.f, a.d).f = RunOf(s1, b.f, b.d).f

-----------------------------------------------------------------------------
(* Claims about single functions (SpecCalls) *)

\* C19: for every input string the result of clean_sheet_name has at most 31
\* characters and contains none of the characters \ / * ? : [ ] ( ).
C19_SheetNameFitsExcel ==
    call = "clean_sheet_name" =>
        /\ Len(result) <= 31
        /\ \A i \in 1..Len(result) :
              result[i] \notin {"\\", "/", "*", "?", ":", "[", "]", "(", ")"}

\* a name longer than 31 characters even without the removed ones was cut
C19_Witness ==
    /\ call = "clean_sheet_name"
    /\ Len(input.args[1]) > 31
    /\ Len(result) = 31
    /\ \E i \in 1..Len(input.args[1]) : input.args[1][i] = "("

\* the positions of the refining entries whose country has no mining entry
RefiningOnly ==
    {i \in 1..Len(input.args[2]) :
        \A j \in 1..Len(input.args[1]) : input.args[1][j].Country # input.args[2][i].Country}

\* C17: the result of process_metal_data lists the countries of the mining
\* data in their input order, followed by the countries that occur only in the
\* refining data in their input order.
C17_MiningThenNewRefining ==
    call = "process_metal_data" =>
        /\ Len(result) = Len(input.args[1]) + Cardinality(RefiningOnly)
        /\ \A k \in 1..Len(input.args[1]) : result[k].Country = input.args[1][k].Country
        /\ \A i \in RefiningOnly :
              result[Len(input.args[1]) + Cardinality({j \in RefiningOnly : j <= i})].Country
                  = input.args[2][i].Country

\* two mining countries, then a refining country that is new after one that
\* is not
C17_Witness ==
    /\ call = "process_metal_data"
    /\ Len(input.args[1]) = 2
    /\ Len(input.args[2]) = 2
    /\ RefiningOnly = {2}
    /\ Len(result) = 3

\* the position of the last title row above row i of the Table 1 rows, or 0
HeaderAbove(i) ==
    LET rows == input.args[1].rows
        titles == {h \in 1..(i - 1) :
                      /\ notna(rows[h].c[1])
                      /\ \A j \in 2..Len(rows[h].c) : ~notna(ToNumeric(rows[h].c[j]))}
    IN  IF titles = {} THEN 0 ELSE CHOOSE h \in titles : \A g \in titles : g <= h

\* C16: every data row (a row with a numeric value) below a mineral header row
\* (a Category and no numeric value) is in exactly one mineral table, that of
\* the most recent header row above it, in input order; data rows above the
\* first header row are in no table.
C16_DataRowsUnderLastHeader ==
    call = "analyze_mineral_data" =>
        LET rows == input.args[1].rows
            data == {i \in 1..Len(rows) : \E j \in 2..Len(rows[i].c) : notna(ToNumeric(rows[i].c[j]))}
            tables(i) == {k \in 1..Len(result.minerals) :
                             \E n \in 1..Len(result.minerals[k].value) :
                                 result.minerals[k].value[n].id = i}
        IN  /\ \A i \in data :
                  IF HeaderAbove(i) = 0 THEN tables(i) = {}
                  ELSE /\ Cardinality(tables(i)) = 1
                       /\ \A k \in tables(i) : result.minerals[k].key = rows[HeaderAbove(i)].c[1].v
            /\ \A k \in 1..Len(result.minerals) :
                  \A n \in 1..Len(result.minerals[k].value) :
                      /\ result.minerals[k].value[n].id \in data
                      /\ \A m \in 1..(n - 1) :
                            result.minerals[k].value[m].id < result.minerals[k].value[n].id

\* C14: no workbook written by a parser script contains a growth, CAGR or
\* market-share column; every stored value is a cell of the source sheet.
C14_NoDerivedColumnStored ==
    call = "analyze_mineral_data" =>
        \A name \in DOMAIN result.sheets :
            \A i \in 1..Len(result.sheets[name]) :
                \A col \in DOMAIN result.sheets[name][i].v :
                    /\ ~Contains(Lower(col), <<"g","r","o","w","t","h">>)
                    /\ ~Contains(Lower(col), <<"c","a","g","r">>)
                    /\ ~Contains(Lower(col), <<"s","h","a","r","e">>)
                    /\ result.sheets[name][i].src # 0
                    /\ \E j \in 2..3 :
                          input.args[1].rows[result.sheets[name][i].src].c[j]
                              = result.sheets[name][i].v[col]

-----------------------------------------------------------------------------
(* Claims about the Table 3.1 parser *)

\* the metal of the header row most recently above row i of the sheet (<<>>
\* when there is none)
MetalAbove(rows, i) ==
    LET above == {j \in 1..(i - 1) : rows[j].c[1].t = "str" /\ MetalOf(rows[j].c[1].v) # <<>>}
    IN  IF above = {} THEN <<>>
        ELSE MetalOf(rows[CHOOSE j \in above : \A h \in above : h <= j].c[1].v)

\* the technology rows of the sheet under a header row of metal M
TechnologyRowsOf(rows, M) ==
    {i \in 1..Len(rows) :
        /\ rows[i].c[1].t = "str"
        /\ MetalOf(rows[i].c[1].v) = <<>>
        /\ ~\E x \in {<<"T","o","t","a","l">>, <<"N","o","t","e","s",":">>, <<"B","a","s","e"," ","c","a","s","e">>} : Contains(rows[i].c[1].v, x)
        /\ \E j \in 2..Len(rows[i].c) : notna(rows[i].c[j])
        /\ MetalAbove(rows, i) = M}

\* C15: in the Table 3.1 parser every technology row is stored under the metal
\* whose header row most recently preceded it: the tables saved under a metal
\* hold exactly the technology rows between that metal's header row and the
\* next header row, and a metal that has such rows gets a key.
C15_RowsUnderTheirMetal ==
    (call = "analysis_table_3_1.py" /\ result.error # "ValueError: Could not find year row with 2023") =>
        LET rows == input.args[1].rows
            scenarios == result.technologies
        IN  \A k \in 1..Len(Metals) :
               /\ TechnologyRowsOf(rows, Metals[k]) # {} =>
                     \E i \in 1..Len(scenarios) :
                        scenarios[i].key = Metals[k] /\ DOMAIN scenarios[i].value # {}
               /\ \A i \in 1..Len(scenarios) :
                     scenarios[i].key = Metals[k] =>
                        \A s \in DOMAIN scenarios[i].value :
                           {scenarios[i].value[s][n].src : n \in 1..Len(scenarios[i].value[s])}
                              = TechnologyRowsOf(rows, Metals[k])

-----------------------------------------------------------------------------
(* Claims about a sheet without a year row *)

NoRowWith2023 == \A i \in 1..Len(input.args[1].rows) : ~Has2023(input.args[1].rows[i])

\* C11: when no row of the input sheet contains the value 2023, the Table 2,
\* 3.1 and 3.2 parsers raise ValueError('Could not find year row with 2023')
\* and end without creating or modifying their output workbooks.
C11_NoYearRowNoWorkbook ==
    (call \in {"analysis_table_2.py", "analysis_table_3_1.py", "analysis_table_3_2.py"}
        /\ NoRowWith2023) =>
        /\ result.error = "ValueError: Could not find year row with 2023"
        /\ result.sheets = <<>>
        /\ call = "analysis_table_2.py" => result.created = {} /\ result.refining = <<>>

C11_Witness ==
    /\ call = "analysis_table_2.py"
    /\ NoRowWith2023
    /\ \E i \in 1..Len(input.args[1].rows) : input.args[1].rows[i].c[2] = Num(<<"5">>)
    /\ result.error = "ValueError: Could not find year row with 2023"

-----------------------------------------------------------------------------
(* Claims about the scenario sheets of the wind and EV parsers *)

\* the columns of scenario s: 2023 and the scenario's 2030..2050
ColumnsOfScenario(s) == {Y2023} \cup {WideColumns[<<s, i>>] : i \in 1..5}

\* C18: in the wind (4.2) and EV (4.3) parsers, the sheet save_to_excel writes
\* for a scenario holds, besides the label and 2023 columns, that scenario's
\* 2030, 2035, 2040, 2045 and 2050 columns and no column of another scenario.
C18_ScenarioSheetHoldsItsColumns ==
    /\ (call = "analysis_table_4.2 .py" /\ result.error = "none") =>
          \A s \in 1..3 :
             LET sheet == result.sheets[clean_sheet_name(ScenarioLong[s])]
             IN  \A k \in 1..Len(sheet) : DOMAIN sheet[k].v = ColumnsOfScenario(s)
    /\ (call = "analysis_table_4.3.py" /\ result.error = "none") =>
          \A n \in DOMAIN result.sheets : \A k \in 1..Len(result.sheets[n]) :
             DOMAIN result.sheets[n][k].v = ColumnsOfScenario(result.sheets[n][k].scenario)

-----------------------------------------------------------------------------
(* Claims about the insights of the Table 4.4 and 4.5 pages *)

\* C20: on the Table 4.4 and Table 4.5 pages, for every selectable material or
\* technology the insights section shows the data of the page's own data set
\* (create_dataframe of analysis_table_4_4_visuals for Table 4.4, of
\* analysis_table_4_5_visuals for Table 4.5), and rendering raises no error.
C20_InsightsOfOwnDataSet ==
    /\ ("page:Table 4.4: Grid Battery Storage" \in rendered /\ selected # PageOptions(page)[1]) =>
          /\ "insights:analysis_table_4_4_visuals" \in rendered
          /\ rendered \cap {"exception:KeyError", "exception:IndexError"} = {}
    /\ ("page:Table 4.5: Electricity Networks" \in rendered /\ selected # PageOptions(page)[1]) =>
          /\ "insights:analysis_table_4_5_visuals" \in rendered
          /\ rendered \cap {"exception:KeyError", "exception:IndexError"} = {}

-----------------------------------------------------------------------------
(* Claims about the chart files of a selection *)

\* a selection that is a page's overview: 'General View ...' or 'Overview'
IsOverview(sel) == Contains(sel, <<"G","e","n","e","r","a","l"," ","V","i","e","w">>) \/ sel = <<"O","v","e","r","v","i","e","w">>

\* C21: on every page with a per-entity selector the chart files the dashboard
\* opens are determined by the selected entity: two different non-overview
\* selections on the same page open different chart files.
C21_SelectionDeterminesFiles ==
    (("page:" \o page) \in rendered /\ selected # <<>> /\ ~IsOverview(selected)) =>
        \A i \in 1..Len(PageOptions(page)) :
            (PageOptions(page)[i] # selected /\ ~IsOverview(PageOptions(page)[i])) =>
                Opened(page, PageOptions(page)[i], fs) # opened

-----------------------------------------------------------------------------
(* Claims about the growth ranking of the Table 3.2 page *)

\* C22: for every scenario sheet the three metals the Table 3.2 page lists
\* under 'Top Growing Metals' are the first three of the five metals
\* create_top_metals_analysis plots as top growing, in the same order.
C22_PageTopThreeIsPlotTopThree ==
    /\ call = "Table 3.2 page" =>
          result.top = Take(create_top_metals_analysis(input.args[1]).top, 3)
    /\ call = "create_top_metals_analysis" =>
          Take(result.top, 3) = TopGrowingMetals(input.args[1]).top

-----------------------------------------------------------------------------
(* Claims about the growth rates of the Table 4.4 page *)

\* the lines of the three scenarios under 'Growth Rates (2023-2050)'
GrowthLines ==
    {"write:- Stated Policies: growth%", "write:- Announced Pledges: growth%",
     "write:- Net Zero: growth%"}

\* the 2023 baseline of a material in the grid battery storage data
GridBaseline(material) ==
    LET df == create_dataframe("analysis_table_4_4_visuals")
    IN  df["Base case"][CHOOSE k \in 1..Len(df.Material) : df.Material[k] = material]

\* C23: on the Table 4.4 page with a material selected, a non-zero 2023
\* baseline of the material gives a growth-rate line for each of the three
\* scenarios, and a zero baseline gives the 'not available' message and no
\* growth-rate line.
C23_GrowthLinesOrNotAvailable ==
    (/\ "page:Table 4.4: Grid Battery Storage" \in rendered
     /\ selected \in Range(create_dataframe("analysis_table_4_4_visuals").Material)) =>
        IF GridBaseline(selected) # 0
        THEN GrowthLines \subseteq rendered
        ELSE /\ "write:Growth rates not available (zero base value)" \in rendered
             /\ GrowthLines \cap rendered = {}

====
